---- MODULE Spec2Model ----
(***************************************************************************)
(* Model of LangGraphBuilder (src/langgraph_builder.py) and of             *)
(* BaseAgent.execute (src/agents/base_agent.py): building a graph from a   *)
(* workflow configuration and running it step by step over a               *)
(* WorkflowState.                                                          *)
(*                                                                         *)
(* Values that Python keeps in dicts and strings are encoded as follows.   *)
(*   - a string is a sequence of tokens, "{{A.leads}}" being               *)
(*     <<"{{", "A", ".", "leads", "}}">>, so that startswith, endswith,    *)
(*     slicing and split work on it as they do on the characters;          *)
(*   - a JSON / Python value is a tagged record: NullV (None), StrV, NumV, *)
(*     MapV (a dict, as a function from keys to values), ListV (a list);   *)
(*   - an insertion-ordered dict whose order matters (state["results"])    *)
(*     is a sequence of [k, v] pairs.                                      *)
(* Timestamps and durations are left out of the log and error entries.     *)
(***************************************************************************)
EXTENDS Integers, Sequences, FiniteSets, TLC

\* Largest number of steps of a workflow configuration.
MaxSteps == 3

\* Largest number of steps of a configuration whose plan runs into a cycle.
MaxCyclicSteps == 2

\* Largest number of calls of execute_workflow on one builder, largest
\* number of steps of a workflow that is run more than once, and the
\* latest second the clock reaches.
MaxRuns == 2
MaxRerunSteps == 2
MaxClock == 1

\* Largest number of records in a batch handed to the scoring agent.
MaxLeads == 3

\* The step ids a configuration draws from; Ghost is an id no step declares.
Ids == {"A", "B", "C"}
Ghost == "Z"

\* langgraph's END node and its default recursion limit, which invoke()
\* applies because execute_workflow passes no config.
END == "__end__"
RecursionLimit == 25

(***************************************************************************)
(* Values                                                                  *)
(***************************************************************************)
NullV == [t |-> "null"]
StrV(toks) == [t |-> "str", s |-> toks]
NumV(n) == [t |-> "num", n |-> n]
MapV(m) == [t |-> "map", m |-> m]
ListV(l) == [t |-> "list", l |-> l]

EmptyMap == [k \in {} |-> NullV]

IsStr(v) == v.t = "str"
IsMap(v) == v.t = "map"

(***************************************************************************)
(* Insertion-ordered dict: a sequence of [k, v] pairs with distinct keys.  *)
(***************************************************************************)
Keys(d) == {d[i].k : i \in 1..Len(d)}
KeySeq(d) == [i \in 1..Len(d) |-> d[i].k]
DictGet(d, key) == d[CHOOSE i \in 1..Len(d) : d[i].k = key].v
\* {key: v}: the merge written without **d.
DictSetAlone(d, key, v) == <<[k |-> key, v |-> v]>>

\* {**d, key: v}: an existing key keeps its position, a new key goes last.
DictSet(d, key, v) ==
    IF key \in Keys(d)
    THEN [i \in 1..Len(d) |-> IF d[i].k = key THEN [k |-> key, v |-> v] ELSE d[i]]
    ELSE Append(d, [k |-> key, v |-> v])

(***************************************************************************)
(* The workflow configuration (workflow.json).  A step is a record         *)
(*   [id, agent, next_steps, inputs, output_schema];                       *)
(* inputs is the JSON value under "inputs": a MapV of bindings, or NullV   *)
(* for a configuration that carries "inputs": null.                        *)
(***************************************************************************)
VARIABLES
    workflow_config,  \* self.workflow_config: [steps |-> sequence of steps]
    graph,            \* self.graph: "None", "StateGraph" (under construction) or "Compiled"
    nodes,            \* the node names added to the StateGraph, in order
    edges,            \* the edges added to the StateGraph: a set of <<from, to>>
    agents,           \* self.agents: the step ids that hold an agent instance
    state,            \* the WorkflowState handed from node to node
    pc,               \* "idle", "running", "returned" or "raised"
    raised,           \* the exception that left build_graph / execute_workflow
    next_node,        \* the node the graph engine runs next (END when none)
    supersteps,       \* the number of nodes the engine has run in this invocation
    behaviour,        \* what the unit of a step does when invoked, once it was invoked
    trace,            \* the step ids whose node_function ran, in order
    outcomes,         \* how each of them ended: "success", "failure" or "exception"
    calls,            \* the calls of agent.execute: [step_id, input_data]
    initial_state,    \* the state execute_workflow handed to graph.invoke
    now,              \* the clock datetime.now() reads, in whole seconds
    runs,             \* the number of calls of execute_workflow so far
    run_ids,          \* the workflow_id of every initial state created so far
    previous,         \* the call before the current one: how it started and ended
    scoring_input,    \* the data ScoringAgent._execute_agent is called with
    scoring_criteria, \* self.scoring_criteria of the ScoringAgent
    scored_leads,     \* the list the loop over enriched_leads appends to
    ranked_leads,     \* the list _execute_agent returns under "ranked_leads"
    spc               \* where _execute_agent is: "idle", "called", "scoring",
                      \* "returned" or "raised"

\* The variables of the builder and those of the scoring agent.
builderVars == <<workflow_config, graph, nodes, edges, agents, state, pc, raised,
                 next_node, supersteps, behaviour, trace, outcomes, calls, initial_state,
                 now, runs, run_ids, previous>>
scoringVars == <<scoring_input, scoring_criteria, scored_leads, ranked_leads, spc>>

vars == <<workflow_config, graph, nodes, edges, agents, state, pc, raised,
          next_node, supersteps, behaviour, trace, outcomes, calls, initial_state,
          now, runs, run_ids, previous,
          scoring_input, scoring_criteria, scored_leads, ranked_leads, spc>>

\* agent_classes: the unit types _create_agent knows.
agent_classes ==
    {"ProspectSearchAgent", "DataEnrichmentAgent", "ScoringAgent",
     "OutreachContentAgent", "OutreachExecutorAgent", "ResponseTrackerAgent",
     "FeedbackTrainerAgent"}

steps == workflow_config.steps
NSteps == Len(steps)
StepIds == {steps[i].id : i \in 1..NSteps}

(***************************************************************************)
(* build_graph                                                             *)
(***************************************************************************)
\* _create_agent: raises ValueError for a type that is not in agent_classes.
CreateAgentRaises(step_config) == step_config.agent \notin agent_classes

\* Mutant of AddNodes: a repeated id replaces the node of that id instead of
\* being refused.
RECURSIVE AddNodesOverwrite(_, _, _)
AddNodesOverwrite(i, ns, ags) ==
    IF i > NSteps THEN [err |-> "none", nodes |-> ns, agents |-> ags]
    ELSE IF CreateAgentRaises(steps[i])
         THEN [err |-> "ValueError: Unknown agent type", nodes |-> ns, agents |-> ags]
    ELSE IF \E j \in 1..Len(ns) : ns[j] = steps[i].id
         THEN AddNodesOverwrite(i + 1, ns, ags)
    ELSE AddNodesOverwrite(i + 1, Append(ns, steps[i].id), ags \cup {steps[i].id})

\* The loop of build_graph over the steps, _add_node for each: the result of
\* running it from step i with the nodes and agents added so far.
RECURSIVE AddNodes(_, _, _)
AddNodes(i, ns, ags) ==
    IF i > NSteps THEN [err |-> "none", nodes |-> ns, agents |-> ags]
    ELSE IF CreateAgentRaises(steps[i])
         THEN [err |-> "ValueError: Unknown agent type", nodes |-> ns, agents |-> ags]
    ELSE IF \E j \in 1..Len(ns) : ns[j] = steps[i].id
         \* self.agents[step_id] is assigned before graph.add_node raises
         THEN [err |-> "ValueError: Node already present", nodes |-> ns,
               agents |-> ags \cup {steps[i].id}]
    ELSE AddNodes(i + 1, Append(ns, steps[i].id), ags \cup {steps[i].id})

\* Mutant of AddEdges: every step is connected to END.
AddEdgesToEnd == {<<steps[i].id, END>> : i \in 1..NSteps}

\* Mutant of AddEdges: the LAST entry of next_steps is the successor.
AddEdgesLast ==
    {<<steps[i].id, IF steps[i].next_steps = <<>> THEN END
                    ELSE steps[i].next_steps[Len(steps[i].next_steps)]>> : i \in 1..NSteps}

\* _add_edges: one edge per step, to END or to the FIRST entry of next_steps.
AddEdges ==
    {<<steps[i].id, IF steps[i].next_steps = <<>> THEN END ELSE steps[i].next_steps[1]>> :
        i \in 1..NSteps}

\* A compile() that also refuses a node no edge leads to, other than the
\* entry point.
CompileRaisesUnreachable(ns, es) ==
    \/ \E e \in es : e[2] # END /\ ~(\E j \in 1..Len(ns) : ns[j] = e[2])
    \/ \E j \in 2..Len(ns) : ~(\E e \in es : e[2] = ns[j])

\* graph.compile(): langgraph validates that every edge ends at a node or at END.
CompileRaises(ns, es) ==
    \E e \in es : e[2] # END /\ ~(\E j \in 1..Len(ns) : ns[j] = e[2])

\* build_graph as a whole: the fields of the builder after it, and the
\* exception it raised ("none" when it returned the compiled graph).
BuildGraphResult ==
    LET added == AddNodes(1, <<>>, {}) IN
    IF added.err # "none"
    THEN [err |-> added.err, graph |-> "StateGraph", nodes |-> added.nodes,
          edges |-> {}, agents |-> added.agents]
    ELSE IF NSteps = 0
    \* self.workflow_config.get("steps", [{}])[0] on an empty list
    THEN [err |-> "IndexError", graph |-> "StateGraph", nodes |-> added.nodes,
          edges |-> {}, agents |-> added.agents]
    ELSE IF CompileRaises(added.nodes, AddEdges)
    THEN [err |-> "ValueError: Found edge ending at unknown node", graph |-> "StateGraph",
          nodes |-> added.nodes, edges |-> AddEdges, agents |-> added.agents]
    ELSE [err |-> "none", graph |-> "Compiled", nodes |-> added.nodes,
          edges |-> AddEdges, agents |-> added.agents]

\* The entry point set by _add_edges: the id of the first declared step.
EntryPoint == steps[1].id

\* The node the compiled graph runs after node n.
Successor(es, n) == (CHOOSE e \in es : e[1] = n)[2]

(***************************************************************************)
(* _prepare_node_input                                                     *)
(***************************************************************************)
\* The first step of the configuration whose id is step_id.
StepConfig(step_id) == steps[CHOOSE i \in 1..NSteps :
                                /\ steps[i].id = step_id
                                /\ \A j \in 1..(i - 1) : steps[j].id # step_id]

\* input_value.startswith("{{") and input_value.endswith("}}")
IsPlaceholder(v) == IsStr(v) /\ Len(v.s) >= 2 /\ v.s[1] = "{{" /\ v.s[Len(v.s)] = "}}"

\* input_value[2:-2]
Reference(v) == SubSeq(v.s, 2, Len(v.s) - 1)

HasDot(ref) == \E i \in 1..Len(ref) : ref[i] = "."
FirstDot(ref) == CHOOSE i \in 1..Len(ref) : ref[i] = "." /\ \A j \in 1..(i - 1) : ref[j] # "."
\* reference.split(".", 1)
StepRef(ref) == SubSeq(ref, 1, FirstDot(ref) - 1)
OutputKey(ref) == SubSeq(ref, FirstDot(ref) + 1, Len(ref))

\* Lookup of a key given as text in state["results"], whose keys are step ids.
InResults(results, ref) == \E i \in 1..Len(results) : <<results[i].k>> = ref
ResultOf(results, ref) == results[CHOOSE i \in 1..Len(results) : <<results[i].k>> = ref].v

\* d.get(key, default) on a MapV
MapGet(d, key, default) == IF key \in DOMAIN d.m THEN d.m[key] ELSE default

ConfigOf(cfg) == cfg.config

\* The lookup written as state["results"][step_id][output_key]: a missing
\* step or key raises KeyError.
PrepareValueStrict(input_value, results, cfg) ==
    IF IsPlaceholder(input_value)
    THEN LET reference == Reference(input_value) IN
         IF HasDot(reference)
         THEN IF /\ InResults(results, StepRef(reference))
                 /\ IsMap(ResultOf(results, StepRef(reference)))
                 /\ OutputKey(reference) \in DOMAIN ResultOf(results, StepRef(reference)).m
              THEN [raises |-> FALSE,
                    value |-> ResultOf(results, StepRef(reference)).m[OutputKey(reference)]]
              ELSE [raises |-> TRUE, value |-> NullV]
         ELSE IF InResults(results, reference)
              THEN [raises |-> FALSE, value |-> ResultOf(results, reference)]
              ELSE [raises |-> TRUE, value |-> NullV]
    ELSE [raises |-> FALSE, value |-> input_value]

\* One binding of the loop of _prepare_node_input: the value stored under
\* input_key, or the exception the lookup raises.
PrepareValue(input_value, results, cfg) ==
    IF IsPlaceholder(input_value)
    THEN LET reference == Reference(input_value) IN
         IF HasDot(reference)
         THEN IF InResults(results, StepRef(reference))
              THEN LET r == ResultOf(results, StepRef(reference)) IN
                   IF IsMap(r)
                   THEN [raises |-> FALSE, value |-> MapGet(r, OutputKey(reference), NullV)]
                   ELSE [raises |-> TRUE, value |-> NullV]
              ELSE [raises |-> FALSE, value |-> NullV]
         ELSE [raises |-> FALSE,
               value |-> IF InResults(results, reference)
                         THEN ResultOf(results, reference) ELSE NullV]
    ELSE IF input_value = StrV(<<"{{", "config", ".", "scoring", "}}">>)
    THEN [raises |-> FALSE,
          value |-> MapGet(ConfigOf(cfg), <<"scoring">>, MapV(EmptyMap))]
    ELSE IF input_value = StrV(<<"{{", "config", ".", "outreach", ".", "persona", "}}">>)
    THEN [raises |-> FALSE,
          value |-> MapGet(MapGet(ConfigOf(cfg), <<"outreach">>, MapV(EmptyMap)),
                           <<"persona">>, StrV(<<"SDR">>))]
    ELSE IF input_value = StrV(<<"{{", "config", ".", "outreach", ".", "tone", "}}">>)
    THEN [raises |-> FALSE,
          value |-> MapGet(MapGet(ConfigOf(cfg), <<"outreach">>, MapV(EmptyMap)),
                           <<"tone">>, StrV(<<"friendly">>))]
    ELSE [raises |-> FALSE, value |-> input_value]

\* The mapping _prepare_node_input returns, or raises.
\* inputs.items() raises when the configured "inputs" is not a mapping.
PreparedInputs(st, step_id, cfg) ==
    LET inputs == StepConfig(step_id).inputs IN
    IF ~IsMap(inputs) THEN [raises |-> TRUE, value |-> EmptyMap]
    ELSE LET each == [key \in DOMAIN inputs.m |->
                         PrepareValue(inputs.m[key], st.results, cfg)] IN
         IF \E key \in DOMAIN each : each[key].raises
         THEN [raises |-> TRUE, value |-> EmptyMap]
         ELSE [raises |-> FALSE, value |-> [key \in DOMAIN each |-> each[key].value]]

\* A _prepare_node_input that notes in the state which step it prepares.
PrepareNodeInputMarking(st, step_id, cfg) ==
    LET prepared_inputs == PreparedInputs(st, step_id, cfg) IN
    [raises |-> prepared_inputs.raises,
     value |-> prepared_inputs.value,
     state |-> [st EXCEPT !.current_step = step_id],
     workflow_config |-> cfg]

\* _prepare_node_input(state, step_id): what it returns or that it raises,
\* and the state and the workflow configuration as it leaves them: it only
\* reads them (state.get, self.workflow_config.get) and assigns to neither.
PrepareNodeInput(st, step_id, cfg) ==
    LET prepared_inputs == PreparedInputs(st, step_id, cfg) IN
    [raises |-> prepared_inputs.raises,
     value |-> prepared_inputs.value,
     state |-> st,
     workflow_config |-> cfg]

(***************************************************************************)
(* BaseAgent.execute                                                       *)
(***************************************************************************)
\* What a unit's _execute_agent does: return a payload that holds "leads",
\* return a payload that holds nothing, or raise.
Behaviours == {"ok", "ok_empty", "raise"}

UnitPayload(step_id) == (<<"leads">> :> StrV(<<"leads of", step_id>>))

\* A _validate_output that accepts every payload.
ValidateOutputSkipped(output_schema, output_data) == FALSE

\* _validate_output: raises when a field of output_schema is missing.
ValidateOutputRaises(output_schema, output_data) ==
    \E field \in output_schema : field \notin DOMAIN output_data

\* execute(input_data) of the agent of step_id whose unit behaves as b.
Execute(step_id, b) ==
    LET output_schema == StepConfig(step_id).output_schema
        result_data == IF b = "ok" THEN UnitPayload(step_id) ELSE EmptyMap
    IN  IF b = "raise"
        THEN [success |-> FALSE, data |-> EmptyMap, error |-> "Agent execution failed: unit"]
        ELSE IF output_schema # {} /\ ValidateOutputRaises(output_schema, result_data)
        THEN [success |-> FALSE, data |-> EmptyMap,
              error |-> "Agent execution failed: Missing required output field"]
        ELSE [success |-> TRUE, data |-> result_data, error |-> "None"]

(***************************************************************************)
(* node_function                                                           *)
(***************************************************************************)
\* The try branch of node_function, after agent.execute returned result.
NodeSuccessState(st, step_id, result) ==
    LET logged == [st EXCEPT
                     !.current_step = step_id,
                     !.execution_log = Append(st.execution_log,
                                              [step_id |-> step_id, success |-> result.success])]
    IN  IF result.success
        THEN [logged EXCEPT !.results = DictSet(st.results, step_id, MapV(result.data))]
        ELSE [logged EXCEPT !.errors = Append(st.errors,
                                              [step_id |-> step_id, error |-> result.error])]

\* An except branch that swallows the exception.
NodeExceptionSwallowed(st, step_id) == st

\* The except branch of node_function.
NodeExceptionState(st, step_id) ==
    [st EXCEPT !.errors = Append(st.errors, [step_id |-> step_id, error |-> "exception"])]

\* node_function(state) of step_id, the unit behaving as b.
NodeFunctionResult(st, step_id, b, cfg) ==
    LET input_data == PrepareNodeInput(st, step_id, cfg) IN
    IF input_data.raises
    THEN NodeExceptionState(input_data.state, step_id)
    ELSE NodeSuccessState(input_data.state, step_id, Execute(step_id, b))

\* Which way node_function went: the except branch, or the try branch with
\* result.success true or false.
NodeOutcome(st, step_id, b, cfg) ==
    IF PrepareNodeInput(st, step_id, cfg).raises THEN "exception"
    ELSE IF Execute(step_id, b).success THEN "success" ELSE "failure"

(***************************************************************************)
(* execute_workflow                                                        *)
(***************************************************************************)
\* An initial state that takes over what the state of the run before holds.
CreateInitialStateKept ==
    [workflow_id |-> now, current_step |-> "None",
     execution_log |-> state.execution_log, errors |-> state.errors,
     results |-> state.results]

\* _create_initial_state: workflow_id is "workflow_" and the clock formatted
\* as %Y%m%d_%H%M%S, that is the clock to the second.
CreateInitialState ==
    [workflow_id |-> now, current_step |-> "None",
     execution_log |-> <<>>, errors |-> <<>>, results |-> <<>>]

\* Before the first call of execute_workflow the builder holds no run state.
NoState ==
    [workflow_id |-> 0, current_step |-> "None",
     execution_log |-> <<>>, errors |-> <<>>, results |-> <<>>]

\* A merge that takes over every key of initial_inputs (dict.update).
MergeInitialInputsAll(fresh, initial_inputs) ==
    [key \in DOMAIN fresh \cup DOMAIN initial_inputs |->
        IF key \in DOMAIN initial_inputs THEN initial_inputs[key] ELSE fresh[key]]

\* The merge of initial_inputs: a key replaces a field of the fresh state
\* when the fresh state has it, and is dropped otherwise.
MergeInitialInputs(fresh, initial_inputs) ==
    [key \in DOMAIN fresh |->
        IF key \in DOMAIN initial_inputs THEN initial_inputs[key] ELSE fresh[key]]

(***************************************************************************)
(* The configurations and inputs explored.                                 *)
(***************************************************************************)
IdOrder == <<"A", "B", "C">>
AgentTypes == {"ScoringAgent", "NoSuchAgent"}
Targets == Ids \cup {Ghost}

\* next_steps lists: empty, one entry, or two distinct entries of which the
\* second is an undeclared id or the last id.  At most one step of a
\* configuration lists two successors.
NextChoices ==
    {<<>>} \cup {<<x>> : x \in Targets}
           \cup UNION {{<<x, y>> : y \in {Ghost, IdOrder[Len(IdOrder)]} \ {x}} : x \in Ids}

LiteralBinding == NumV(20)
StepKeyBinding == StrV(<<"{{", "A", ".", "leads", "}}">>)
StepBinding == StrV(<<"{{", "A", "}}">>)
BindingChoices == {LiteralBinding, StepKeyBinding, StepBinding}
InputChoices == {NullV} \cup {MapV([key \in {"leads"} |-> b]) : b \in BindingChoices}
SchemaChoices == {{}, {<<"leads">>}}

NextLists(n) ==
    {nx \in [1..n -> NextChoices] : \A i, j \in 1..n : Len(nx[i]) = 2 /\ Len(nx[j]) = 2 => i = j}

PlainInputs == MapV([key \in {"leads"} |-> LiteralBinding])

\* The "config" section of the workflow file.
Config ==
    MapV((<<"scoring">> :> MapV((<<"criteria">> :> StrV(<<"criteria">>))))
         @@ (<<"outreach">> :> MapV((<<"persona">> :> StrV(<<"AE">>)))))

\* Other "config" sections: one without "scoring" and without "persona",
\* and an empty one.
ConfigChoices ==
    { Config,
      MapV((<<"outreach">> :> MapV((<<"tone">> :> StrV(<<"formal">>))))),
      MapV(EmptyMap) }

\* Bindings that address the config section, and bindings that hold a
\* placeholder inside a mapping or inside a list.
ConfigScoringBinding == StrV(<<"{{", "config", ".", "scoring", "}}">>)
ConfigPersonaBinding == StrV(<<"{{", "config", ".", "outreach", ".", "persona", "}}">>)
ConfigToneBinding == StrV(<<"{{", "config", ".", "outreach", ".", "tone", "}}">>)
NestedMapBinding == MapV((<<"inner">> :> StepKeyBinding))
NestedListBinding == ListV(<<StepKeyBinding, LiteralBinding>>)
ResolverBindings ==
    {ConfigScoringBinding, ConfigPersonaBinding, ConfigToneBinding,
     NestedMapBinding, NestedListBinding}

\* Step ids are interchangeable, so the ids of a configuration are named in
\* the order of their first occurrence: A, then B, then C.
IdSeqs(n) ==
    {ids \in [1..n -> Ids] :
        \A i \in 1..n : \A k \in 2..Len(IdOrder) :
            ids[i] = IdOrder[k] => \E j \in 1..(i - 1) : ids[j] = IdOrder[k - 1]}

\* The loop over the steps raises (unknown agent type or repeated id), and
\* then no next_steps list is ever read: such a configuration is given no
\* successors at all, or the successors of a line.
NodeLoopRaises(ids, ag) ==
    \/ \E i \in DOMAIN ag : ag[i] \notin agent_classes
    \/ \E i, j \in DOMAIN ids : i # j /\ ids[i] = ids[j]

LineNext(n, ids) == [i \in 1..n |-> IF i < n THEN <<ids[i + 1]>> ELSE <<>>]

MakeConfig(n, ids, ag, nx, inp, sch) ==
    [steps |-> [i \in 1..n |-> [id |-> ids[i], agent |-> ag[i], next_steps |-> nx[i],
                                inputs |-> inp[i], output_schema |-> sch[i]]],
     config |-> Config]

\* Any shape of workflow, every step with a literal binding and no schema.
PlainConfigs ==
    UNION {
      UNION {
        UNION {
          {MakeConfig(n, ids, ag, nx, [i \in 1..n |-> PlainInputs], [i \in 1..n |-> {}]) :
              nx \in IF NodeLoopRaises(ids, ag)
                     THEN {[i \in 1..n |-> <<>>], LineNext(n, ids)}
                     ELSE NextLists(n)}
          : ag \in [1..n -> AgentTypes]}
        : ids \in IdSeqs(n)}
      : n \in 0..MaxSteps}

\* A chain A -> B -> ... of known units, every choice of bindings and schemas.
ChainLen == {n \in 1..MaxSteps : n <= Len(IdOrder)}
ChainConfigs ==
    UNION {
      UNION {
        {MakeConfig(n, [i \in 1..n |-> IdOrder[i]], [i \in 1..n |-> "ScoringAgent"],
                    LineNext(n, IdOrder), inp, sch) :
            inp \in [1..n -> InputChoices]}
        : sch \in [1..n -> SchemaChoices]}
      : n \in ChainLen}

\* A line A -> B of known units in which B holds one of the bindings above
\* under every config section.
ResolverConfigs ==
    UNION {
      {[MakeConfig(2, IdOrder, [i \in 1..2 |-> "ScoringAgent"], LineNext(2, IdOrder),
                   [i \in 1..2 |-> IF i = 1 THEN PlainInputs
                                   ELSE MapV([key \in {"leads"} |-> b])],
                   [i \in 1..2 |-> {}])
          EXCEPT !.config = c] : c \in ConfigChoices}
      : b \in ResolverBindings}

\* initial_inputs of execute_workflow: None, a results mapping that already
\* holds a payload for step A or for step B, a log and an error list that
\* already hold an entry, or a key the state does not have.
PresetPayload == MapV((<<"leads">> :> StrV(<<"preset">>)))
NoInputs == [key \in {} |-> NullV]
InitialInputChoices ==
    { NoInputs,
      [key \in {"results"} |-> <<[k |-> "A", v |-> PresetPayload]>>],
      [key \in {"results"} |-> <<[k |-> "B", v |-> PresetPayload]>>],
      [key \in {"execution_log", "errors"} |->
          IF key = "execution_log" THEN <<[step_id |-> "A", success |-> TRUE]>>
          ELSE <<[step_id |-> "A", error |-> "earlier"]>>],
      [key \in {"leads"} |-> StrV(<<"extra">>)] }

(***************************************************************************)
(* The plan a configuration describes: the walk from the first declared    *)
(* step along the first entry of each next_steps list.                     *)
(***************************************************************************)
Declared(id) == \E i \in 1..NSteps : steps[i].id = id

FirstNext(id) ==
    IF StepConfig(id).next_steps = <<>> THEN END ELSE StepConfig(id).next_steps[1]

\* The walk from id, cut after fuel steps or at an undeclared id.
RECURSIVE Walk(_, _)
Walk(id, fuel) ==
    IF id = END \/ fuel = 0 \/ ~Declared(id) THEN <<>>
    ELSE <<id>> \o Walk(FirstNext(id), fuel - 1)

\* Whether the walk from id reaches END within fuel steps.
RECURSIVE ReachesEnd(_, _)
ReachesEnd(id, fuel) ==
    IF id = END THEN TRUE
    ELSE IF fuel = 0 \/ ~Declared(id) THEN FALSE
    ELSE ReachesEnd(FirstNext(id), fuel - 1)

Acyclic == NSteps > 0 /\ ReachesEnd(steps[1].id, NSteps)
\* The walk revisits a step: it is still going after NSteps steps.
Cyclic == NSteps > 0 /\ Len(Walk(steps[1].id, NSteps + 1)) = NSteps + 1
Plan == Walk(steps[1].id, NSteps)

ErrorsOf(step_id) == {i \in 1..Len(state.errors) : state.errors[i].step_id = step_id}

(***************************************************************************)
(* The state machine                                                       *)
(***************************************************************************)
\* A builder after construction, before build_graph and execute_workflow.
BuilderConstructed ==
    /\ graph = "None"
    /\ nodes = <<>>
    /\ edges = {}
    /\ agents = {}
    /\ now = 0
    /\ state = NoState
    /\ pc = "idle"
    /\ raised = "none"
    /\ next_node = END
    /\ supersteps = 0
    /\ behaviour = [s \in {} |-> "ok"]
    /\ trace = <<>>
    /\ outcomes = <<>>
    /\ calls = <<>>
    /\ initial_state = NoState
    /\ runs = 0
    /\ run_ids = <<>>
    /\ previous = [called |-> FALSE]

\* A ScoringAgent after construction (__init__), not called.
ScoringConstructed ==
    /\ scoring_input = [enriched_leads |-> <<>>, scoring_criteria |-> MapV(EmptyMap)]
    /\ scoring_criteria = ListV(<<>>)
    /\ scored_leads = <<>>
    /\ ranked_leads = <<>>
    /\ spc = "idle"

Init ==
    /\ workflow_config \in PlainConfigs \cup ChainConfigs \cup ResolverConfigs
    /\ Cyclic => NSteps <= MaxCyclicSteps
    /\ BuilderConstructed
    /\ ScoringConstructed

\* builder.build_graph(), called by the user before execute_workflow.
BuildGraph ==
    /\ pc = "idle"
    /\ graph = "None"
    /\ LET b == BuildGraphResult IN
       /\ graph' = b.graph
       /\ nodes' = b.nodes
       /\ edges' = b.edges
       /\ agents' = b.agents
       /\ raised' = b.err
    /\ UNCHANGED <<workflow_config, state, pc, next_node, supersteps, behaviour,
                   trace, outcomes, calls, initial_state,
                   now, runs, run_ids, previous>>
    /\ UNCHANGED scoringVars

\* execute_workflow(initial_inputs) up to the first node: build the graph
\* if there is none, make the initial state, enter graph.invoke.
ExecuteWorkflow(initial_inputs) ==
    /\ \/ pc = "idle"
       \/ pc \in {"returned", "raised"} /\ runs < MaxRuns /\ NSteps <= MaxRerunSteps
    /\ LET b == IF graph = "None" THEN BuildGraphResult
                ELSE [err |-> "none", graph |-> graph, nodes |-> nodes,
                      edges |-> edges, agents |-> agents]
       IN
       /\ graph' = b.graph
       /\ nodes' = b.nodes
       /\ edges' = b.edges
       /\ agents' = b.agents
       /\ IF b.err # "none"
          THEN \* build_graph raised out of execute_workflow
               /\ pc' = "raised"
               /\ raised' = b.err
               /\ UNCHANGED <<state, next_node, run_ids>>
          ELSE IF b.graph # "Compiled"
          THEN \* self.graph is the StateGraph an earlier build left: no invoke
               /\ pc' = "raised"
               /\ raised' = "AttributeError"
               /\ state' = MergeInitialInputs(CreateInitialState, initial_inputs)
               /\ run_ids' = Append(run_ids, state'.workflow_id)
               /\ UNCHANGED next_node
          ELSE /\ pc' = "running"
               /\ raised' = "none"
               /\ state' = MergeInitialInputs(CreateInitialState, initial_inputs)
               /\ run_ids' = Append(run_ids, state'.workflow_id)
               /\ next_node' = EntryPoint
    /\ initial_state' = state'
    /\ supersteps' = 0
    /\ trace' = <<>>
    /\ outcomes' = <<>>
    /\ calls' = <<>>
    /\ runs' = runs + 1
    /\ previous' = IF runs = 0 THEN [called |-> FALSE]
                   ELSE [called |-> TRUE, returned |-> pc = "returned",
                         initial_state |-> initial_state,
                         results |-> state.results, outcomes |-> outcomes]
    /\ UNCHANGED <<workflow_config, behaviour, now>>
    /\ UNCHANGED scoringVars

\* The graph engine runs the node of the current step: node_function.
NodeFunction ==
    /\ pc = "running"
    /\ next_node # END
    /\ supersteps < RecursionLimit
    /\ LET step_id == next_node
           input_data == PrepareNodeInput(state, step_id, workflow_config)
       IN
       /\ \E b \in (IF step_id \in DOMAIN behaviour THEN {behaviour[step_id]} ELSE Behaviours) :
            /\ state' = NodeFunctionResult(state, step_id, b, workflow_config)
            /\ outcomes' = Append(outcomes, NodeOutcome(state, step_id, b, workflow_config))
            /\ behaviour' = IF input_data.raises THEN behaviour
                            ELSE (step_id :> b) @@ behaviour
       /\ calls' = IF input_data.raises THEN calls
                   ELSE Append(calls, [step_id |-> step_id, input_data |-> input_data.value])
       /\ trace' = Append(trace, step_id)
       /\ next_node' = Successor(edges, step_id)
    /\ supersteps' = supersteps + 1
    /\ UNCHANGED <<workflow_config, graph, nodes, edges, agents, pc, raised, initial_state,
                   now, runs, run_ids, previous>>
    /\ UNCHANGED scoringVars

\* graph.invoke returned: execute_workflow adds end_time and duration and
\* returns the final state.
ExecuteWorkflowReturn ==
    /\ pc = "running"
    /\ next_node = END
    /\ pc' = "returned"
    /\ UNCHANGED <<workflow_config, graph, nodes, edges, agents, state, raised,
                   next_node, supersteps, behaviour, trace, outcomes, calls, initial_state,
                   now, runs, run_ids, previous>>
    /\ UNCHANGED scoringVars

\* graph.invoke raises GraphRecursionError when the engine has run
\* RecursionLimit nodes and has not reached END; execute_workflow re-raises.
ExecuteWorkflowRaise ==
    /\ pc = "running"
    /\ next_node # END
    /\ supersteps >= RecursionLimit
    /\ pc' = "raised"
    /\ raised' = "GraphRecursionError"
    /\ UNCHANGED <<workflow_config, graph, nodes, edges, agents, state,
                   next_node, supersteps, behaviour, trace, outcomes, calls, initial_state,
                   now, runs, run_ids, previous>>
    /\ UNCHANGED scoringVars

\* A second passes.  The clock is read when a call of execute_workflow
\* creates its initial state, so what matters is whether time passed
\* between two calls.
Tick ==
    /\ pc \in {"returned", "raised"}
    /\ runs < MaxRuns /\ NSteps <= MaxRerunSteps
    /\ now < MaxClock
    /\ now' = now + 1
    /\ UNCHANGED <<workflow_config, graph, nodes, edges, agents, state, pc, raised,
                   next_node, supersteps, behaviour, trace, outcomes, calls, initial_state,
                   runs, run_ids, previous>>
    /\ UNCHANGED scoringVars

Next ==
    \/ BuildGraph
    \/ \E initial_inputs \in InitialInputChoices : ExecuteWorkflow(initial_inputs)
    \/ NodeFunction
    \/ ExecuteWorkflowReturn
    \/ ExecuteWorkflowRaise
    \/ Tick

Spec == Init /\ [][Next]_vars

\* The first run of the workflows whose plan is acyclic (and, of the cyclic
\* ones, those of a single step) and whose steps take a literal input or
\* carry "inputs": null, under the scheduling of a run: execute_workflow
\* is one synchronous call, so a run that has started keeps going until it
\* returns or raises.
FairInit ==
    /\ Init
    /\ workflow_config \in PlainConfigs \cup ChainConfigs
    /\ \A i \in 1..NSteps : steps[i].inputs \in {NullV, PlainInputs}
    /\ Cyclic => NSteps = 1

\* The first call of execute_workflow on a builder.
FirstCall ==
    \E initial_inputs \in InitialInputChoices : runs = 0 /\ ExecuteWorkflow(initial_inputs)

OneCallNext ==
    \/ BuildGraph
    \/ FirstCall
    \/ NodeFunction
    \/ ExecuteWorkflowReturn
    \/ ExecuteWorkflowRaise

FairSpec ==
    /\ FairInit
    /\ [][OneCallNext]_vars
    /\ WF_vars(NodeFunction)
    /\ WF_vars(ExecuteWorkflowReturn)
    /\ WF_vars(ExecuteWorkflowRaise)

(***************************************************************************)
(* ScoringAgent (src/agents/scoring_agent.py)                              *)
(*                                                                         *)
(* Numbers.  A Python int is NumV(n), a bool is BoolV(b), a float is       *)
(* FloatV(q) where q is the rational [n, d] in lowest terms with d > 0,    *)
(* and d = 0 stands for NaN.  Arithmetic is exact; round(x, 2) rounds the  *)
(* exact value half to even, which is what the binary float gives except   *)
(* for values whose binary form falls on the other side of a half, and     *)
(* none of the records explored has such a value.                          *)
(***************************************************************************)
BoolV(b) == [t |-> "bool", b |-> b]
FloatV(q) == [t |-> "float", q |-> q]

IsList(v) == v.t = "list"
IsBool(v) == v.t = "bool"
IsNumber(v) == v.t \in {"num", "float", "bool"}

Abs(n) == IF n < 0 THEN -n ELSE n

RECURSIVE GCD(_, _)
GCD(a, b) == IF b = 0 THEN a ELSE GCD(b, a % b)

NaN == [n |-> 0, d |-> 0]
IsNaN(x) == x.d = 0

\* The rational n/d in lowest terms.
Q(n, d) ==
    IF d = 0 THEN NaN
    ELSE LET g == GCD(Abs(n), Abs(d))
             sign == IF d < 0 THEN -1 ELSE 1
         IN  [n |-> (sign * n) \div g, d |-> (sign * d) \div g]

Zero == Q(0, 1)
One == Q(1, 1)

\* The number a numeric value stands for (True is 1, False is 0).
NumberOf(v) ==
    IF v.t = "num" THEN Q(v.n, 1)
    ELSE IF v.t = "bool" THEN (IF v.b THEN One ELSE Zero)
    ELSE v.q

\* Comparisons and arithmetic of floats: a comparison with NaN is false,
\* an operation on NaN gives NaN.
Lt(x, y) == ~IsNaN(x) /\ ~IsNaN(y) /\ x.n * y.d < y.n * x.d
Gt(x, y) == Lt(y, x)
Le(x, y) == ~IsNaN(x) /\ ~IsNaN(y) /\ x.n * y.d <= y.n * x.d
NumEq(x, y) == ~IsNaN(x) /\ ~IsNaN(y) /\ x = y
Add(x, y) == IF IsNaN(x) \/ IsNaN(y) THEN NaN ELSE Q(x.n * y.d + y.n * x.d, x.d * y.d)
Sub(x, y) == IF IsNaN(x) \/ IsNaN(y) THEN NaN ELSE Q(x.n * y.d - y.n * x.d, x.d * y.d)
Mul(x, y) == IF IsNaN(x) \/ IsNaN(y) THEN NaN ELSE Q(x.n * y.n, x.d * y.d)
Div(x, y) == IF IsNaN(x) \/ IsNaN(y) THEN NaN ELSE Q(x.n * y.d, x.d * y.n)

\* round(x, 2) of a float that is not negative.
Round2(x) ==
    IF IsNaN(x) THEN NaN
    ELSE LET whole == (x.n * 100) \div x.d
             rest == (x.n * 100) % x.d
         IN  IF 2 * rest < x.d THEN Q(whole, 100)
             ELSE IF 2 * rest > x.d THEN Q(whole + 1, 100)
             ELSE IF whole % 2 = 0 THEN Q(whole, 100) ELSE Q(whole + 1, 100)

(***************************************************************************)
(* Strings of digits, and the strings str() and lower() give.              *)
(***************************************************************************)
Digits == <<"0", "1", "2", "3", "4", "5", "6", "7", "8", "9">>
IsDigit(tok) == \E i \in 1..10 : Digits[i] = tok
DigitValue(tok) == (CHOOSE i \in 1..10 : Digits[i] = tok) - 1

RECURSIVE ParseDigits(_, _)
ParseDigits(toks, acc) ==
    IF toks = <<>> THEN acc
    ELSE ParseDigits(Tail(toks), 10 * acc + DigitValue(Head(toks)))

RECURSIVE DigitsOf(_)
DigitsOf(n) ==
    IF n < 10 THEN <<Digits[n + 1]>>
    ELSE Append(DigitsOf(n \div 10), Digits[(n % 10) + 1])

\* float(value): the float, or that float() raises ValueError / TypeError.
\* A string is a number when it is made of digits, and NaN when it is "nan".
FloatOf(value) ==
    IF IsNumber(value) THEN [raises |-> FALSE, value |-> NumberOf(value)]
    ELSE IF IsStr(value)
         THEN IF value.s # <<>> /\ \A i \in 1..Len(value.s) : IsDigit(value.s[i])
              THEN [raises |-> FALSE, value |-> Q(ParseDigits(value.s, 0), 1)]
              ELSE IF value.s = <<"nan">>
              THEN [raises |-> FALSE, value |-> NaN]
              ELSE [raises |-> TRUE, value |-> NaN]
    ELSE [raises |-> TRUE, value |-> NaN]

\* str.lower(), token by token.
LowerToken(tok) ==
    IF tok = "True" \/ tok = "TRUE" THEN "true"
    ELSE IF tok = "False" \/ tok = "FALSE" THEN "false"
    ELSE IF tok = "Yes" \/ tok = "YES" THEN "yes"
    ELSE tok
Lower(toks) == [i \in 1..Len(toks) |-> LowerToken(toks[i])]

\* str(value) of a string, a bool, None or an int that is not negative;
\* the str() of any other value is a text no field of a record holds.
Str(value) ==
    IF IsStr(value) THEN value.s
    ELSE IF IsBool(value) THEN (IF value.b THEN <<"True">> ELSE <<"False">>)
    ELSE IF value.t = "null" THEN <<"None">>
    ELSE IF value.t = "num" /\ value.n >= 0 THEN DigitsOf(value.n)
    ELSE <<"repr">>

\* value == other of Python: numbers (bools among them) compare by value,
\* everything else by type and content.
PyEq(value, other) ==
    IF IsNumber(value) /\ IsNumber(other)
    THEN NumEq(NumberOf(value), NumberOf(other))
    ELSE value.t = other.t /\ value = other

\* bool(value): the truth value of a Python value.
Truthy(value) ==
    IF value.t = "null" THEN FALSE
    ELSE IF IsNumber(value) THEN ~NumEq(NumberOf(value), Zero)
    ELSE IF IsStr(value) THEN value.s # <<>>
    ELSE IF IsList(value) THEN value.l # <<>>
    ELSE DOMAIN value.m # {}

(***************************************************************************)
(* _get_field_value and the three kinds of criterion                       *)
(***************************************************************************)
\* field.split(".")
RECURSIVE Split(_)
Split(toks) ==
    IF ~HasDot(toks) THEN <<toks>>
    ELSE <<SubSeq(toks, 1, FirstDot(toks) - 1)>>
             \o Split(SubSeq(toks, FirstDot(toks) + 1, Len(toks)))

\* A lookup that stops at the last value it could reach.
RECURSIVE DescendPartial(_, _)
DescendPartial(value, parts) ==
    IF parts = <<>> THEN value
    ELSE IF IsMap(value) /\ Head(parts) \in DOMAIN value.m
         THEN DescendPartial(value.m[Head(parts)], Tail(parts))
         ELSE value

\* The loop over the parts of a dotted field: None (NullV) when a part is
\* missing or the value reached is not a mapping.
RECURSIVE Descend(_, _)
Descend(value, parts) ==
    IF parts = <<>> THEN value
    ELSE IF IsMap(value) /\ Head(parts) \in DOMAIN value.m
         THEN Descend(value.m[Head(parts)], Tail(parts))
         ELSE NullV

\* _get_field_value(lead, field) of a mapping lead and a string field.
GetFieldValue(lead, field) ==
    IF HasDot(field) THEN Descend(lead, Split(field))
    ELSE MapGet(lead, field, NullV)

\* A range score that is not capped at max.
ScoreRangeCriterionUncapped(value, criterion) ==
    LET numeric_value == FloatOf(value)
        min_val == MapGet(criterion, <<"min">>, NumV(0))
        max_val == MapGet(criterion, <<"max">>, NumV(1))
    IN  IF numeric_value.raises THEN Zero
        ELSE IF PyEq(min_val, max_val)
             THEN (IF PyEq(FloatV(numeric_value.value), min_val) THEN One ELSE Zero)
        ELSE IF ~IsNumber(min_val) THEN Zero
        ELSE IF Lt(numeric_value.value, NumberOf(min_val)) THEN Zero
        ELSE IF ~IsNumber(max_val) THEN Zero
        ELSE Div(Sub(numeric_value.value, NumberOf(min_val)),
                 Sub(NumberOf(max_val), NumberOf(min_val)))

\* _score_range_criterion: float(value) or a comparison with a bound that
\* is not a number raises inside the try, and the score is then 0.0.
ScoreRangeCriterion(value, criterion) ==
    LET numeric_value == FloatOf(value)
        min_val == MapGet(criterion, <<"min">>, NumV(0))
        max_val == MapGet(criterion, <<"max">>, NumV(1))
    IN  IF numeric_value.raises THEN Zero
        ELSE IF PyEq(min_val, max_val)
             THEN (IF PyEq(FloatV(numeric_value.value), min_val) THEN One ELSE Zero)
        ELSE IF ~IsNumber(min_val) THEN Zero
        ELSE IF Lt(numeric_value.value, NumberOf(min_val)) THEN Zero
        ELSE IF ~IsNumber(max_val) THEN Zero
        ELSE IF Gt(numeric_value.value, NumberOf(max_val)) THEN One
        ELSE Div(Sub(numeric_value.value, NumberOf(min_val)),
                 Sub(NumberOf(max_val), NumberOf(min_val)))

\* _score_boolean_criterion
ScoreBooleanCriterion(value, criterion) ==
    LET expected_value == MapGet(criterion, <<"value">>, BoolV(TRUE)) IN
    IF IsBool(value) THEN (IF PyEq(value, expected_value) THEN One ELSE Zero)
    ELSE IF IsStr(value)
         THEN (IF Lower(Str(expected_value)) = Lower(value.s) THEN One ELSE Zero)
    ELSE IF PyEq(value, expected_value) THEN One ELSE Zero

\* value.strip(): a string of blanks only strips to the empty string.
StripsToEmpty(toks) == \A i \in 1..Len(toks) : toks[i] = " "

\* _score_generic_criterion
ScoreGenericCriterion(value, criterion) ==
    IF value.t = "null" \/ value = StrV(<<>>) THEN Zero
    ELSE IF IsBool(value) THEN (IF value.b THEN One ELSE Zero)
    ELSE IF IsNumber(value) THEN (IF Gt(NumberOf(value), Zero) THEN One ELSE Zero)
    ELSE IF IsStr(value) THEN (IF StripsToEmpty(value.s) THEN Zero ELSE One)
    ELSE IF IsList(value) THEN (IF value.l # <<>> THEN One ELSE Zero)
    ELSE One

\* _evaluate_criterion(lead, criterion), field being a string.
EvaluateCriterion(lead, criterion) ==
    LET field == MapGet(criterion, <<"field">>, StrV(<<>>)).s
        field_value == GetFieldValue(lead, field)
    IN  IF field_value.t = "null" THEN Zero
        ELSE IF <<"min">> \in DOMAIN criterion.m /\ <<"max">> \in DOMAIN criterion.m
             THEN ScoreRangeCriterion(field_value, criterion)
        ELSE IF <<"value">> \in DOMAIN criterion.m
             THEN ScoreBooleanCriterion(field_value, criterion)
        ELSE ScoreGenericCriterion(field_value, criterion)

\* No default criteria at all.
DefaultCriteriaEmpty == ListV(<<>>)

\* _get_default_criteria
DefaultCriteria ==
    ListV(<< MapV((<<"field">> :> StrV(<<"company_size">>)) @@ (<<"weight">> :> FloatV(Q(3, 10)))
                  @@ (<<"min">> :> NumV(100)) @@ (<<"max">> :> NumV(1000))),
             MapV((<<"field">> :> StrV(<<"company_revenue">>)) @@ (<<"weight">> :> FloatV(Q(25, 100)))
                  @@ (<<"min">> :> NumV(20000000)) @@ (<<"max">> :> NumV(200000000))),
             MapV((<<"field">> :> StrV(<<"recent_funding">>)) @@ (<<"weight">> :> FloatV(Q(2, 10)))
                  @@ (<<"value">> :> BoolV(TRUE))),
             MapV((<<"field">> :> StrV(<<"hiring_sales">>)) @@ (<<"weight">> :> FloatV(Q(15, 100)))
                  @@ (<<"value">> :> BoolV(TRUE))),
             MapV((<<"field">> :> StrV(<<"is_corporate_email">>)) @@ (<<"weight">> :> FloatV(Q(1, 10)))
                  @@ (<<"value">> :> BoolV(TRUE))) >>)

(***************************************************************************)
(* _score_single_lead                                                      *)
(***************************************************************************)
\* What `for criterion in self.scoring_criteria` iterates over: the items
\* of a list, the characters of a string, the keys of a mapping; a number
\* is not iterable.
Items(criteria) ==
    IF IsList(criteria) THEN [raises |-> FALSE, items |-> criteria.l]
    ELSE IF IsStr(criteria)
         THEN [raises |-> FALSE,
               items |-> [i \in 1..Len(criteria.s) |-> StrV(<<criteria.s[i]>>)]]
    ELSE [raises |-> TRUE, items |-> <<>>]

ScoringRaised(error) ==
    [raises |-> TRUE, error |-> error, total_score |-> Zero,
     score_breakdown |-> EmptyMap]

BreakdownEntry(field_score, weight) ==
    MapV((<<"raw_score">> :> FloatV(field_score))
         @@ (<<"weight">> :> weight)
         @@ (<<"weighted_score">> :> FloatV(Mul(field_score, NumberOf(weight)))))

\* The loop of _score_single_lead over the criteria left, with the total
\* and the breakdown so far; at its end the rounded total.
RECURSIVE ScoreCriteria(_, _, _, _)
ScoreCriteria(lead, items, total_score, score_breakdown) ==
    IF items = <<>>
    THEN [raises |-> FALSE, error |-> "None", total_score |-> Round2(total_score),
          score_breakdown |-> score_breakdown]
    ELSE LET criterion == Head(items) IN
         IF ~IsMap(criterion)
         THEN ScoringRaised("AttributeError: object has no attribute 'get'")
         ELSE LET field == MapGet(criterion, <<"field">>, StrV(<<>>))
                  weight == MapGet(criterion, <<"weight">>, FloatV(Zero))
              IN  IF ~Truthy(field)
                  THEN ScoreCriteria(lead, Tail(items), total_score, score_breakdown)
                  ELSE IF ~IsNumber(weight)
                  THEN ScoringRaised("TypeError: '<=' not supported")
                  ELSE IF Le(NumberOf(weight), Zero)
                  THEN ScoreCriteria(lead, Tail(items), total_score, score_breakdown)
                  ELSE IF ~IsStr(field)
                  THEN ScoringRaised("TypeError: field is not a string")
                  ELSE LET field_score == EvaluateCriterion(lead, criterion)
                           weighted_score == Mul(field_score, NumberOf(weight))
                       IN  ScoreCriteria(lead, Tail(items),
                                         Add(total_score, weighted_score),
                                         (field.s :> BreakdownEntry(field_score, weight))
                                             @@ score_breakdown)

\* The sum of the weights that count, 1 when there is none.
RECURSIVE WeightSum(_)
WeightSum(items) ==
    IF items = <<>> THEN Zero
    ELSE LET weight == MapGet(Head(items), <<"weight">>, FloatV(Zero)) IN
         IF IsNumber(weight) /\ Gt(NumberOf(weight), Zero)
         THEN Add(NumberOf(weight), WeightSum(Tail(items)))
         ELSE WeightSum(Tail(items))

\* A _score_single_lead that divides the total by the sum of the weights.
ScoreSingleLeadNormalised(lead, criteria) ==
    IF Items(criteria).raises THEN ScoringRaised("TypeError: object is not iterable")
    ELSE LET score_data == ScoreCriteria(lead, Items(criteria).items, Zero, EmptyMap) IN
         IF score_data.raises \/ WeightSum(Items(criteria).items) = Zero THEN score_data
         ELSE [score_data EXCEPT
                 !.total_score = Round2(Div(@, WeightSum(Items(criteria).items)))]

\* _score_single_lead(lead) of a mapping lead: score_data, or the exception.
ScoreSingleLead(lead, criteria) ==
    IF Items(criteria).raises THEN ScoringRaised("TypeError: object is not iterable")
    ELSE ScoreCriteria(lead, Items(criteria).items, Zero, EmptyMap)

\* {**lead, **score_data}; the timestamp scored_at is left out.
ScoredLead(lead, score_data) ==
    MapV((<<"total_score">> :> FloatV(score_data.total_score))
         @@ (<<"score_breakdown">> :> MapV(score_data.score_breakdown))
         @@ lead.m)

\* {**lead, "total_score": 0.0, "score_breakdown": {}, "scoring_error": str(e)}
\* of a mapping lead.
DefaultScoredLead(lead, error) ==
    MapV((<<"total_score">> :> FloatV(Zero))
         @@ (<<"score_breakdown">> :> MapV(EmptyMap))
         @@ (<<"scoring_error">> :> StrV(<<error>>))
         @@ lead.m)

\* One pass of the loop of _execute_agent over enriched_leads (lines 54 to
\* 76).  lead.get in the try raises AttributeError for a lead that is not
\* a mapping, and so does {**lead, ...} in the handler (TypeError), which
\* no handler catches: the exception leaves _execute_agent.
ScoreLeadResult(lead, criteria) ==
    IF ~IsMap(lead)
    THEN [raises |-> TRUE, scored_lead |-> NullV]
    ELSE LET score_data == ScoreSingleLead(lead, criteria) IN
         IF score_data.raises
         THEN [raises |-> FALSE, scored_lead |-> DefaultScoredLead(lead, score_data.error)]
         ELSE [raises |-> FALSE, scored_lead |-> ScoredLead(lead, score_data)]

(***************************************************************************)
(* sorted(scored_leads, key=..., reverse=True) as CPython's list sort does *)
(* it for a list shorter than 64: the list is reversed, the run at its     *)
(* start is found (and reversed when it descends), the remaining items are *)
(* put in place by binary insertion, and the list is reversed again.  The  *)
(* only comparison is key < key.                                           *)
(***************************************************************************)
Reverse(s) == [i \in 1..Len(s) |-> s[Len(s) + 1 - i]]

\* key=lambda x: x.get("total_score", 0)
SortKey(lead) == NumberOf(MapGet(lead, <<"total_score">>, NumV(0)))
KeyLt(a, b) == Lt(SortKey(a), SortKey(b))

RECURSIVE RunEnd(_, _, _)
RunEnd(a, k, descending) ==
    IF k < Len(a) /\ (IF descending THEN KeyLt(a[k + 1], a[k]) ELSE ~KeyLt(a[k + 1], a[k]))
    THEN RunEnd(a, k + 1, descending)
    ELSE k

\* count_run: the length of the run at the start of a, and whether it descends.
CountRun(a) ==
    IF Len(a) = 1 THEN [n |-> 1, descending |-> FALSE]
    ELSE LET descending == KeyLt(a[2], a[1]) IN
         [n |-> RunEnd(a, 2, descending), descending |-> descending]

\* The binary search of binarysort for the place of pivot in a[l..r-1].
RECURSIVE InsertionPoint(_, _, _, _)
InsertionPoint(a, pivot, l, r) ==
    IF l >= r THEN l
    ELSE LET p == l + ((r - l) \div 2) IN
         IF KeyLt(pivot, a[p]) THEN InsertionPoint(a, pivot, l, p)
         ELSE InsertionPoint(a, pivot, p + 1, r)

RECURSIVE BinarySort(_, _)
BinarySort(a, start) ==
    IF start > Len(a) THEN a
    ELSE LET pivot == a[start]
             l == InsertionPoint(a, pivot, 1, start)
         IN  BinarySort(SubSeq(a, 1, l - 1) \o <<pivot>> \o SubSeq(a, l, start - 1)
                            \o SubSeq(a, start + 1, Len(a)),
                        start + 1)

ListSort(a) ==
    IF Len(a) < 2 THEN a
    ELSE LET run == CountRun(a)
             b == IF run.descending
                  THEN Reverse(SubSeq(a, 1, run.n)) \o SubSeq(a, run.n + 1, Len(a))
                  ELSE a
         IN  BinarySort(b, run.n + 1)

Sorted(leads) == Reverse(ListSort(Reverse(leads)))

\* A ranking that counts positions from 0 in the rank and from 1 in the
\* percentile.
WithRankShifted(lead, i, n) ==
    MapV((<<"rank">> :> NumV(i - 1))
         @@ (<<"percentile">> :> FloatV(Mul(Q(n - i, n), Q(100, 1))))
         @@ lead.m)

\* Lines 82 to 84: rank and percentile of the lead at position i (from 1).
WithRank(lead, i, n) ==
    MapV((<<"rank">> :> NumV(i))
         @@ (<<"percentile">> :> FloatV(Mul(Q(n - (i - 1), n), Q(100, 1))))
         @@ lead.m)

RankedLeads(leads) ==
    LET sorted == Sorted(leads) IN
    [i \in 1..Len(sorted) |-> WithRank(sorted[i], i, Len(sorted))]

(***************************************************************************)
(* The records and criteria explored.                                      *)
(***************************************************************************)
Lead(company, company_size) ==
    MapV((<<"company">> :> StrV(<<company>>)) @@ (<<"company_size">> :> company_size))

\* Leads of 200, 500 and 900 employees, a second lead of 200, a lead whose
\* company_size is the text "nan", a lead that nests the size under
\* "profile", and a record that is not a mapping.
LeadChoices ==
    { Lead("a", NumV(200)), Lead("b", NumV(200)), Lead("c", NumV(500)),
      Lead("d", NumV(900)), Lead("e", StrV(<<"nan">>)),
      MapV((<<"company">> :> StrV(<<"f">>))
           @@ (<<"profile">> :> MapV((<<"size">> :> NumV(550))))),
      StrV(<<"not a mapping">>) }

LeadBatches == UNION {[1..n -> LeadChoices] : n \in 0..MaxLeads}

RangeCriterion(field, weight) ==
    MapV((<<"field">> :> StrV(field)) @@ (<<"weight">> :> weight)
         @@ (<<"min">> :> NumV(100)) @@ (<<"max">> :> NumV(1000)))

\* scoring_criteria of the input: no "criteria" key and an empty criteria
\* list (the defaults apply), one range criterion of weight 1.0, a range
\* criterion on a dotted field next to one of weight 0, and a criterion
\* whose weight is a text.
CriteriaChoices ==
    { MapV(EmptyMap),
      MapV((<<"criteria">> :> ListV(<<>>))),
      MapV((<<"criteria">> :> ListV(<<RangeCriterion(<<"company_size">>, FloatV(One))>>))),
      MapV((<<"criteria">> :>
              ListV(<<RangeCriterion(<<"profile", ".", "size">>, FloatV(Q(1, 2))),
                      RangeCriterion(<<"company_size">>, NumV(0))>>))),
      MapV((<<"criteria">> :>
              ListV(<<RangeCriterion(<<"company_size">>, StrV(<<"high">>))>>))) }

\* The workflow of the builder that holds the agent: one ScoringAgent step.
ScoringWorkflow ==
    MakeConfig(1, <<"A">>, <<"ScoringAgent">>, <<<<>>>>, <<PlainInputs>>, <<{}>>)

(***************************************************************************)
(* ScoringAgent._execute_agent as a state machine                          *)
(***************************************************************************)
\* _execute_agent has been called with enriched_leads and scoring_criteria.
ScoringInit ==
    /\ workflow_config = ScoringWorkflow
    /\ BuilderConstructed
    /\ scoring_input \in [enriched_leads : LeadBatches, scoring_criteria : CriteriaChoices]
    /\ scoring_criteria = ListV(<<>>)
    /\ scored_leads = <<>>
    /\ ranked_leads = <<>>
    /\ spc = "called"

\* len(value) is defined for strings, lists and mappings.
HasLen(value) == IsStr(value) \/ IsList(value) \/ IsMap(value)

\* Lines 37 to 52: the criteria are taken from the input, the defaults
\* when there are none.  scoring_criteria.get and the len() of the first
\* log line raise for an input of another shape.
ScoringStart ==
    /\ spc = "called"
    /\ LET given == scoring_input.scoring_criteria IN
       IF ~IsMap(given) \/ ~HasLen(MapGet(given, <<"criteria">>, ListV(<<>>)))
       THEN /\ spc' = "raised"
            /\ UNCHANGED scoring_criteria
       ELSE /\ spc' = "scoring"
            /\ scoring_criteria' =
                  IF Truthy(MapGet(given, <<"criteria">>, ListV(<<>>)))
                  THEN MapGet(given, <<"criteria">>, ListV(<<>>))
                  ELSE DefaultCriteria
    /\ scored_leads' = <<>>
    /\ UNCHANGED <<scoring_input, ranked_leads>>
    /\ UNCHANGED builderVars

\* One pass of the loop over enriched_leads.
ScoreLead ==
    /\ spc = "scoring"
    /\ Len(scored_leads) < Len(scoring_input.enriched_leads)
    /\ LET lead == scoring_input.enriched_leads[Len(scored_leads) + 1]
           result == ScoreLeadResult(lead, scoring_criteria)
       IN  IF result.raises
           THEN /\ spc' = "raised"
                /\ UNCHANGED scored_leads
           ELSE /\ scored_leads' = Append(scored_leads, result.scored_lead)
                /\ UNCHANGED spc
    /\ UNCHANGED <<scoring_input, scoring_criteria, ranked_leads>>
    /\ UNCHANGED builderVars

\* Lines 78 to 106: the loop is over, the leads are sorted, ranked and
\* returned.
RankLeads ==
    /\ spc = "scoring"
    /\ Len(scored_leads) = Len(scoring_input.enriched_leads)
    /\ ranked_leads' = RankedLeads(scored_leads)
    /\ spc' = "returned"
    /\ UNCHANGED <<scoring_input, scoring_criteria, scored_leads>>
    /\ UNCHANGED builderVars

\* Lines 95 to 106: scoring_metadata of the mapping _execute_agent returns,
\* the timestamp and the score range left out.
ScoringMetadata ==
    [total_leads |-> Len(scoring_input.enriched_leads),
     scoring_criteria_used |-> IF IsMap(scoring_criteria)
                               THEN Cardinality(DOMAIN scoring_criteria.m)
                               ELSE IF IsStr(scoring_criteria) THEN Len(scoring_criteria.s)
                               ELSE Len(scoring_criteria.l)]

ScoringNext ==
    \/ ScoringStart
    \/ ScoreLead
    \/ RankLeads

ScoringSpec == ScoringInit /\ [][ScoringNext]_vars

(***************************************************************************)
(* One record scored on one criterion: every kind of criterion against     *)
(* every kind of field value.                                              *)
(***************************************************************************)
\* The values the field "v" of the record takes.
ValueChoices ==
    { NumV(-5), NumV(0), NumV(1), NumV(50), NumV(100), NumV(550), NumV(1000), NumV(1500),
      FloatV(Q(1, 2)), BoolV(TRUE), BoolV(FALSE),
      StrV(<<>>), StrV(<<" ">>), StrV(<<"5", "5", "0">>), StrV(<<"nan">>), StrV(<<"abc">>),
      StrV(<<"TRUE">>), StrV(<<"true">>), StrV(<<"Yes">>), StrV(<<"1">>),
      ListV(<<>>), ListV(<<NumV(1)>>),
      MapV(EmptyMap), MapV((<<"size">> :> NumV(550))),
      NullV }

\* A record that holds value under "v", and one that has no "v".
ProbeLead(value) ==
    MapV((<<"company">> :> StrV(<<"p">>))
         @@ (<<"profile">> :> MapV((<<"size">> :> NumV(550))))
         @@ (<<"v">> :> value))
ProbeLeadWithout ==
    MapV((<<"company">> :> StrV(<<"p">>))
         @@ (<<"profile">> :> MapV((<<"size">> :> NumV(550)))))
ProbeLeads == {ProbeLead(value) : value \in ValueChoices} \cup {ProbeLeadWithout}

\* The fields a criterion names: "v", a path that resolves, and paths
\* that do not (a key missing at the first or at the last segment, a value
\* on the way that is not a mapping).
FieldChoices ==
    { <<"v">>, <<"profile", ".", "size">>, <<"profile", ".", "age">>,
      <<"owner", ".", "size">>, <<"v", ".", "size">>,
      <<"profile", ".", "size", ".", "unit">> }

\* What a criterion holds next to field and weight: the bounds of a range
\* (min < max, min = max, min > max), an expected value, or nothing.
KindChoices ==
    { (<<"min">> :> NumV(100)) @@ (<<"max">> :> NumV(1000)),
      (<<"min">> :> NumV(100)) @@ (<<"max">> :> NumV(100)),
      (<<"min">> :> NumV(1000)) @@ (<<"max">> :> NumV(100)),
      (<<"value">> :> BoolV(TRUE)),
      (<<"value">> :> BoolV(FALSE)),
      (<<"value">> :> StrV(<<"yes">>)),
      (<<"value">> :> NumV(1)),
      (<<"value">> :> NumV(550)),
      EmptyMap }

ProbeCriteria ==
    { MapV((<<"field">> :> StrV(field)) @@ (<<"weight">> :> FloatV(One)) @@ kind) :
        field \in FieldChoices, kind \in KindChoices }

\* _execute_agent has been called with one record and one criterion.
CriterionInit ==
    /\ workflow_config = ScoringWorkflow
    /\ BuilderConstructed
    /\ \E lead \in ProbeLeads, criterion \in ProbeCriteria :
          scoring_input = [enriched_leads |-> <<lead>>,
                           scoring_criteria |-> MapV((<<"criteria">> :> ListV(<<criterion>>)))]
    /\ scoring_criteria = ListV(<<>>)
    /\ scored_leads = <<>>
    /\ ranked_leads = <<>>
    /\ spc = "called"

CriterionSpec == CriterionInit /\ [][ScoringNext]_vars

DistinctIds == \A i, j \in 1..NSteps : steps[i].id = steps[j].id => i = j
IsLine == DistinctIds /\ \A i \in 1..NSteps :
              steps[i].next_steps = IF i < NSteps THEN <<steps[i + 1].id>> ELSE <<>>

C2_UnknownUnitFailsOnlyItsStep ==
    (/\ NSteps = 3 /\ IsLine
     /\ steps[1].agent \in agent_classes
     /\ steps[2].agent \notin agent_classes
     /\ steps[3].agent \in agent_classes)
    => /\ pc # "raised"
       /\ pc = "returned" =>
            /\ Len(state.execution_log) = 3
            /\ Cardinality({i \in 1..3 : ~state.execution_log[i].success}) = 1
            /\ {steps[1].id, steps[3].id} \subseteq Keys(state.results)

(***************************************************************************)
(* C3: a workflow whose first-successor edges lead back to a step already  *)
(* visited is rejected when it is built: the graph is never compiled and   *)
(* no run of it starts.                                                    *)
(***************************************************************************)
C3_CycleRejectedAtBuild ==
    Cyclic => /\ graph # "Compiled"
              /\ pc \notin {"running", "returned"}
              /\ trace = <<>>

(***************************************************************************)
(* C4: a workflow in which some next_steps entry, at any position of the   *)
(* list, names an id no step declares is rejected when it is built, before *)
(* any step runs.                                                          *)
(***************************************************************************)
DanglingNext ==
    \E i \in 1..NSteps : \E j \in 1..Len(steps[i].next_steps) :
        ~Declared(steps[i].next_steps[j])

C4_DanglingNextRejected ==
    DanglingNext => /\ graph # "Compiled"
                    /\ pc \notin {"running", "returned"}
                    /\ trace = <<>>

(***************************************************************************)
(* C5: a workflow with no step, or with two steps of the same id, fails to *)
(* build: the build attempt raises, no compiled graph exists afterwards,   *)
(* no step ever runs, and execute_workflow raises.                         *)
(***************************************************************************)
C5_EmptyOrDuplicateRejected ==
    (NSteps = 0 \/ ~DistinctIds)
    => /\ graph # "Compiled"
       /\ graph # "None" => raised # "none"
       /\ pc \in {"idle", "raised"}
       /\ trace = <<>>

\* execute_workflow raised on a workflow whose second step repeats the id
\* of the first, both of a known unit type.
C5_Witness ==
    /\ NSteps = 2 /\ steps[1].id = steps[2].id
    /\ \A i \in 1..2 : steps[i].agent \in agent_classes
    /\ pc = "raised"
    /\ raised = "ValueError: Node already present"

(***************************************************************************)
(* Helpers of the claims about the order and the bookkeeping of a run.     *)
(***************************************************************************)
Range(seq) == {seq[i] : i \in 1..Len(seq)}
FirstPos(seq, x) == CHOOSE i \in 1..Len(seq) : seq[i] = x /\ \A j \in 1..(i - 1) : seq[j] # x
IsPrefix(a, b) == Len(a) <= Len(b) /\ \A i \in 1..Len(a) : b[i] = a[i]

\* Whether a is b with some elements left out.
RECURSIVE IsSubseq(_, _)
IsSubseq(a, b) ==
    IF a = <<>> THEN TRUE
    ELSE IF b = <<>> THEN FALSE
    ELSE IF Head(a) = Head(b) THEN IsSubseq(Tail(a), Tail(b))
    ELSE IsSubseq(a, Tail(b))

\* The walk of the plan, as far as the run has got.
FollowsFirstSuccessors ==
    \A i \in 1..Len(trace) :
        trace[i] = IF i = 1 THEN steps[1].id ELSE FirstNext(trace[i - 1])

\* The log entries the run appended, after those initial_inputs supplied.
AddedLog ==
    SubSeq(state.execution_log, Len(initial_state.execution_log) + 1, Len(state.execution_log))
AddedErrors == SubSeq(state.errors, Len(initial_state.errors) + 1, Len(state.errors))
AddedLogIds == [i \in 1..Len(AddedLog) |-> AddedLog[i].step_id]

\* Keys of results in the order in which their steps first ran.
KeysInRunOrder(keys) ==
    \A i, j \in 1..Len(keys) :
        (i < j /\ keys[i] \in Range(trace) /\ keys[j] \in Range(trace))
            => FirstPos(trace, keys[i]) < FirstPos(trace, keys[j])

SuppliedKeys == Keys(initial_state.results)
AddedKeySeq == SelectSeq(KeySeq(state.results), LAMBDA k : k \notin SuppliedKeys)

C7_OneLogEntryPerAttempt ==
    pc = "returned" =>
        /\ Len(AddedLog) = Len(trace)
        /\ \A i \in 1..Len(trace) :
              /\ AddedLog[i].step_id = trace[i]
              /\ AddedLog[i].success = (outcomes[i] = "success")

(***************************************************************************)
(* C8 as stated: when a run has returned, a step that succeeded has an     *)
(* entry in results and none in errors, and a step that failed (unit       *)
(* failure, exception, missing output field) has exactly one entry in      *)
(* errors and no entry in results.                                         *)
(***************************************************************************)
C8_AccountedAsStated ==
    pc = "returned" =>
        \A i \in 1..Len(trace) :
            IF outcomes[i] = "success"
            THEN trace[i] \in Keys(state.results) /\ ErrorsOf(trace[i]) = {}
            ELSE Cardinality(ErrorsOf(trace[i])) = 1 /\ trace[i] \notin Keys(state.results)

(***************************************************************************)
(* C8 as amended: every attempt of a step either succeeds, and then writes *)
(* the step's entry of results and adds no error, or fails, and then adds  *)
(* exactly one entry carrying its step id to errors and leaves results as  *)
(* they were; errors is only ever appended to.  So when a run has          *)
(* returned, a step that succeeded has an entry in results and the run     *)
(* added none for it to errors, and a step that failed has exactly one     *)
(* entry that the run added to errors and no entry in results other than   *)
(* one initial_inputs supplied, which is left as supplied.                 *)
(***************************************************************************)
AttemptAccounted ==
    (pc = "running" /\ trace' # trace) =>
        LET step_id == trace'[Len(trace')]
            outcome == outcomes'[Len(outcomes')]
        IN  IF outcome = "success"
            THEN /\ step_id \in Keys(state'.results)
                 /\ state'.errors = state.errors
            ELSE /\ Len(state'.errors) = Len(state.errors) + 1
                 /\ IsPrefix(state.errors, state'.errors)
                 /\ state'.errors[Len(state'.errors)].step_id = step_id
                 /\ state'.results = state.results

AddedErrorsOf(step_id) == {i \in 1..Len(AddedErrors) : AddedErrors[i].step_id = step_id}

C8_Accounted ==
    /\ [][AttemptAccounted]_vars
    /\ [][pc = "running" => IsPrefix(state.errors, state'.errors)]_vars
    /\ [](pc = "returned" =>
            \A i \in 1..Len(trace) :
                IF outcomes[i] = "success"
                THEN trace[i] \in Keys(state.results) /\ AddedErrorsOf(trace[i]) = {}
                ELSE /\ Cardinality(AddedErrorsOf(trace[i])) = 1
                     /\ trace[i] \in Keys(state.results) =>
                           /\ trace[i] \in SuppliedKeys
                           /\ DictGet(state.results, trace[i])
                                = DictGet(initial_state.results, trace[i]))

\* A run returned after one step failed by an exception, one because its
\* unit failed or its output lacked a field, and one succeeded.
C8_Witness ==
    /\ pc = "returned"
    /\ \E i \in 1..Len(outcomes) : outcomes[i] = "exception"
    /\ \E i \in 1..Len(outcomes) : outcomes[i] = "failure"
    /\ \E i \in 1..Len(outcomes) : outcomes[i] = "success"

(***************************************************************************)
(* C9 as stated: no step transition overwrites or removes an entry that    *)
(* results already holds.                                                  *)
(***************************************************************************)
C9_WriteOnceAsStated ==
    [][pc = "running" =>
          \A i \in 1..Len(state.results) :
              /\ i <= Len(state'.results)
              /\ state'.results[i] = state.results[i]]_vars

(***************************************************************************)
(* C9 as amended: no step transition removes an entry of results or moves  *)
(* a key, and a transition writes no entry other than that of the step     *)
(* that ran, and only when this step succeeded; it writes it on every      *)
(* successful attempt, over the entry initial_inputs supplied for the      *)
(* step's id or an earlier visit of the step left.                         *)
(***************************************************************************)
ResultsWrittenByOwnStep ==
    pc = "running" =>
        /\ \A i \in 1..Len(state.results) :
              /\ i <= Len(state'.results)
              /\ state'.results[i].k = state.results[i].k
              /\ state'.results[i] # state.results[i] => state.results[i].k = next_node
        /\ Len(state'.results) <= Len(state.results) + 1
        /\ Len(state'.results) > Len(state.results) =>
              state'.results[Len(state'.results)].k = next_node
        /\ state'.results # state.results =>
              /\ trace' # trace
              /\ outcomes'[Len(outcomes')] = "success"
        /\ (trace' # trace /\ outcomes'[Len(outcomes')] = "success") =>
              /\ next_node \in Keys(state'.results)
              /\ DictGet(state'.results, next_node) = MapV(Execute(next_node, behaviour'[next_node]).data)

C9_WrittenByOwnStep == [][ResultsWrittenByOwnStep]_vars

\* The entry initial_inputs supplied for step A was replaced when A ran,
\* and the entry beside it was kept.
C9_Witness ==
    /\ "A" \in SuppliedKeys
    /\ DictGet(state.results, "A") # DictGet(initial_state.results, "A")
    /\ Len(state.results) >= 2

(***************************************************************************)
(* C10: a binding {{S.K}} is given to the unit as results[S][K] when       *)
(* results holds a payload for S that has K, and as null otherwise; a      *)
(* binding {{S}} as the whole payload of S, or null.  Preparing such       *)
(* inputs never raises: the unit is invoked.  So in a line of two steps    *)
(* whose first step failed and left no results, the second step is invoked *)
(* with null for its {{step1.leads}} binding.                              *)
(***************************************************************************)
LenientLookup ==
    (pc = "running" /\ trace' # trace /\ IsMap(StepConfig(next_node).inputs)) =>
        LET bindings == StepConfig(next_node).inputs.m
            last == calls'[Len(calls')]
            has == "A" \in Keys(state.results)
        IN  /\ Len(calls') = Len(calls) + 1
            /\ last.step_id = next_node
            /\ DOMAIN last.input_data = DOMAIN bindings
            /\ \A key \in DOMAIN bindings :
                  /\ bindings[key] = StepKeyBinding =>
                        last.input_data[key] =
                            IF has /\ <<"leads">> \in DOMAIN DictGet(state.results, "A").m
                            THEN DictGet(state.results, "A").m[<<"leads">>]
                            ELSE NullV
                  /\ bindings[key] = StepBinding =>
                        last.input_data[key] =
                            IF has THEN DictGet(state.results, "A") ELSE NullV

C10_LenientResolution ==
    /\ [][LenientLookup]_vars
    /\ []((/\ NSteps = 2 /\ IsLine /\ Len(trace) = 2
           /\ outcomes[1] # "success"
           /\ trace[1] \notin Keys(state.results)
           /\ steps[2].inputs = MapV([key \in {"leads"} |-> StepKeyBinding]))
          => /\ calls # <<>>
             /\ calls[Len(calls)] = [step_id |-> trace[2],
                                     input_data |-> [key \in {"leads"} |-> NullV]])

\* The second step of a two-step line was invoked with null for its
\* {{A.leads}} binding after the unit of the first step had failed.
C10_Witness ==
    /\ NSteps = 2 /\ IsLine /\ Len(trace) = 2
    /\ outcomes[1] = "failure"
    /\ steps[2].inputs = MapV([key \in {"leads"} |-> StepKeyBinding])
    /\ calls[Len(calls)] = [step_id |-> "B", input_data |-> [key \in {"leads"} |-> NullV]]

(***************************************************************************)
(* C11: a binding that is one of the config placeholders is given to the   *)
(* unit as the value at that path of the workflow's config section, or as  *)
(* the default of the path (an empty mapping, "SDR", "friendly") when a    *)
(* segment of the path is absent.                                          *)
(***************************************************************************)
ConfigLookup(binding) ==
    LET config == ConfigOf(workflow_config)
        outreach == MapGet(config, <<"outreach">>, MapV(EmptyMap))
    IN  IF binding = ConfigScoringBinding
        THEN MapGet(config, <<"scoring">>, MapV(EmptyMap))
        ELSE IF binding = ConfigPersonaBinding
        THEN MapGet(outreach, <<"persona">>, StrV(<<"SDR">>))
        ELSE MapGet(outreach, <<"tone">>, StrV(<<"friendly">>))

C11_ConfigPlaceholderResolved ==
    \A i \in 1..Len(calls) :
        LET bindings == StepConfig(calls[i].step_id).inputs.m IN
        \A key \in DOMAIN bindings :
            bindings[key] \in {ConfigScoringBinding, ConfigPersonaBinding, ConfigToneBinding}
                => calls[i].input_data[key] = ConfigLookup(bindings[key])

(***************************************************************************)
(* C12: a {{step.key}} placeholder inside a mapping-valued or list-valued  *)
(* binding is replaced by the referenced value before the unit is invoked. *)
(***************************************************************************)
ReferencedLeads ==
    IF "A" \in Keys(state.results) /\ <<"leads">> \in DOMAIN DictGet(state.results, "A").m
    THEN DictGet(state.results, "A").m[<<"leads">>]
    ELSE NullV

NestedResolved ==
    (pc = "running" /\ Len(calls') > Len(calls)) =>
        LET bindings == StepConfig(next_node).inputs.m
            last == calls'[Len(calls')]
        IN  \A key \in DOMAIN bindings :
                /\ bindings[key] = NestedMapBinding =>
                      last.input_data[key] = MapV((<<"inner">> :> ReferencedLeads))
                /\ bindings[key] = NestedListBinding =>
                      last.input_data[key] = ListV(<<ReferencedLeads, LiteralBinding>>)

C12_NestedPlaceholdersResolved == [][NestedResolved]_vars

(***************************************************************************)
(* C13: when the unit of a step with a non-empty output schema is invoked  *)
(* and returns a payload that lacks a field of the schema, the step fails: *)
(* results is left as it was, one entry for the step is added to errors    *)
(* and one entry with success = FALSE to execution_log, nothing is raised  *)
(* and the engine goes on to the step's successor; a payload that holds    *)
(* every field of the schema is stored in results as returned.             *)
(***************************************************************************)
OutputContract ==
    (pc = "running" /\ Len(calls') > Len(calls)
                    /\ StepConfig(next_node).output_schema # {}) =>
        LET step_id == next_node
            output_schema == StepConfig(step_id).output_schema
            payload == IF behaviour'[step_id] = "ok" THEN UnitPayload(step_id) ELSE EmptyMap
        IN  /\ (behaviour'[step_id] # "raise" /\ ~(output_schema \subseteq DOMAIN payload)) =>
                  /\ state'.results = state.results
                  /\ Len(state'.errors) = Len(state.errors) + 1
                  /\ state'.errors[Len(state'.errors)].step_id = step_id
                  /\ Len(state'.execution_log) = Len(state.execution_log) + 1
                  /\ state'.execution_log[Len(state'.execution_log)]
                        = [step_id |-> step_id, success |-> FALSE]
                  /\ pc' = "running" /\ raised' = raised
                  /\ next_node' = FirstNext(step_id)
            /\ (behaviour'[step_id] # "raise" /\ output_schema \subseteq DOMAIN payload) =>
                  /\ step_id \in Keys(state'.results)
                  /\ DictGet(state'.results, step_id) = MapV(payload)
                  /\ state'.errors = state.errors

C13_OutputContract == [][OutputContract]_vars

\* A run returned in which a step with an output schema returned a payload
\* without the field and failed, and the step after it, also with a
\* schema, returned the field and succeeded.
C13_Witness ==
    /\ pc = "returned"
    /\ Len(trace) >= 2
    /\ StepConfig(trace[1]).output_schema # {}
    /\ StepConfig(trace[2]).output_schema # {}
    /\ trace[1] \in DOMAIN behaviour /\ behaviour[trace[1]] = "ok_empty"
    /\ outcomes[1] = "failure" /\ outcomes[2] = "success"
    /\ trace[1] \notin Keys(state.results)
    /\ trace[2] \in Keys(state.results)

(***************************************************************************)
(* C14: _prepare_node_input leaves the run state and the workflow          *)
(* configuration as they were, and hands every binding value that is not a *)
(* placeholder string to the unit unchanged.                               *)
(***************************************************************************)
C14_ResolutionPure ==
    (pc = "running" /\ next_node # END) =>
        LET prepared == PrepareNodeInput(state, next_node, workflow_config)
            inputs == StepConfig(next_node).inputs
        IN  /\ prepared.state = state
            /\ prepared.workflow_config = workflow_config
            /\ (~prepared.raises) =>
                  \A key \in DOMAIN inputs.m :
                      ~IsPlaceholder(inputs.m[key]) => prepared.value[key] = inputs.m[key]

\* The input of a step is about to be prepared from a state that holds
\* results, and one of its bindings is a mapping that is not a placeholder.
C14_Witness ==
    /\ pc = "running" /\ next_node # END
    /\ state.results # <<>>
    /\ state.current_step # next_node
    /\ IsMap(StepConfig(next_node).inputs)
    /\ \E key \in DOMAIN StepConfig(next_node).inputs.m :
          StepConfig(next_node).inputs.m[key] = NestedMapBinding

(***************************************************************************)
(* C15: a workflow of N >= 1 steps with distinct ids, known unit types,    *)
(* declared first successors and an acyclic plan builds, also when steps   *)
(* cannot be reached from the first declared step, and a run attempts      *)
(* between 1 and N steps: exactly those reachable from the entry point     *)
(* along first successors.                                                 *)
(***************************************************************************)
RECURSIVE ReachableFrom(_, _)
ReachableFrom(seen, fuel) ==
    LET more == seen \cup ({FirstNext(id) : id \in seen} \ {END}) IN
    IF fuel = 0 \/ more = seen THEN seen ELSE ReachableFrom(more, fuel - 1)

Reachable == ReachableFrom({steps[1].id}, NSteps)

WellFormed ==
    /\ NSteps >= 1
    /\ DistinctIds
    /\ \A i \in 1..NSteps : steps[i].agent \in agent_classes
    /\ \A i \in 1..NSteps : FirstNext(steps[i].id) = END \/ Declared(FirstNext(steps[i].id))
    /\ Acyclic

C16_CurrentStepIsLastAttempted ==
    (pc \in {"running", "returned"} /\ trace # <<>>) =>
        state.current_step = trace[Len(trace)]

(***************************************************************************)
(* C17: any two calls of execute_workflow that do not pass a workflow_id   *)
(* of their own get different run ids, however close together in time      *)
(* they start.                                                             *)
(***************************************************************************)
C17_RunIdsDistinct ==
    \A i, j \in 1..Len(run_ids) : i # j => run_ids[i] # run_ids[j]

(***************************************************************************)
(* C18: run state is per run and the specification is read-only.  A call   *)
(* of execute_workflow changes neither workflow_config nor, once the graph *)
(* is compiled, the step-to-agent registry; a call starts from results,    *)
(* execution_log and errors that are empty or what the call's own          *)
(* initial_inputs carry, whatever the run before left; and a second run    *)
(* that starts from the same initial state as the first, with the same     *)
(* unit behaviour, returns the same results and the same per-step          *)
(* success pattern.                                                        *)
(***************************************************************************)
RunFields == {"results", "execution_log", "errors"}

\* What a run may start from in a field: nothing, or the caller's value.
CallerValues(field) ==
    {<<>>} \cup {initial_inputs[field] :
                    initial_inputs \in {ii \in InitialInputChoices : field \in DOMAIN ii}}

StartsFromCallerInputs ==
    \A field \in RunFields : initial_state[field] \in CallerValues(field)

SameStart ==
    [initial_state EXCEPT !.workflow_id = 0]
        = [previous.initial_state EXCEPT !.workflow_id = 0]

SecondRunReproduces ==
    (pc = "returned" /\ previous.called /\ previous.returned /\ SameStart)
        => (state.results = previous.results /\ outcomes = previous.outcomes)

SpecificationReadOnly ==
    /\ UNCHANGED workflow_config
    /\ graph = "Compiled" => UNCHANGED agents

C18_RunStateIsPerRun ==
    /\ [](StartsFromCallerInputs /\ SecondRunReproduces)
    /\ [][SpecificationReadOnly]_vars

\* A second run of a two-step workflow has returned; it started as the
\* first did, the first stored a payload and one of its steps failed.
C18_Witness ==
    /\ runs = 2
    /\ pc = "returned"
    /\ previous.called
    /\ previous.returned
    /\ SameStart
    /\ previous.results # <<>>
    /\ Len(previous.outcomes) = 2
    /\ \E i \in 1..2 : previous.outcomes[i] # "success"
    /\ state.results = previous.results

(***************************************************************************)
(* C19: a failure while scoring one record, whatever the shape of the      *)
(* record (a record that is not a mapping included), does not abort the    *)
(* scoring of the batch: _execute_agent does not raise, a failing record   *)
(* is emitted with total_score 0.0, an empty score_breakdown and an error  *)
(* message, and every other record is emitted with its score.              *)
(***************************************************************************)
RecordFails(lead) ==
    ~IsMap(lead) \/ ScoreSingleLead(lead, scoring_criteria).raises

FailureEmitted(scored_lead) ==
    /\ IsMap(scored_lead)
    /\ {<<"total_score">>, <<"score_breakdown">>, <<"scoring_error">>} \subseteq DOMAIN scored_lead.m
    /\ scored_lead.m[<<"total_score">>] = FloatV(Zero)
    /\ scored_lead.m[<<"score_breakdown">>] = MapV(EmptyMap)

C19_ScoringFailureIsolated ==
    /\ spc # "raised"
    /\ \A i \in 1..Len(scored_leads) :
         LET lead == scoring_input.enriched_leads[i] IN
         IF RecordFails(lead)
         THEN FailureEmitted(scored_leads[i])
         ELSE scored_leads[i] = ScoredLead(lead, ScoreSingleLead(lead, scoring_criteria))

(***************************************************************************)
(* C20: the ranking is a stable descending sort: in ranked_leads no record *)
(* comes after a record of lower total_score, and the records of one       *)
(* total_score are in the order they had in the input.                     *)
(***************************************************************************)
\* A ranked lead without the rank and the percentile added to it.
Unranked(lead) ==
    MapV([key \in DOMAIN lead.m \ {<<"rank">>, <<"percentile">>} |-> lead.m[key]])

\* The leads of a list whose total_score is score, in the order of the list.
LeadsOfScore(leads, score) ==
    SelectSeq(leads, LAMBDA lead : NumEq(SortKey(lead), score))

C20_RankingStableDescending ==
    spc = "returned" =>
        /\ \A i, j \in 1..Len(ranked_leads) :
              i < j => ~Lt(SortKey(ranked_leads[i]), SortKey(ranked_leads[j]))
        /\ \A k \in 1..Len(scored_leads) :
              LET score == SortKey(scored_leads[k])
                  ranked == LeadsOfScore(ranked_leads, score)
              IN  [i \in 1..Len(ranked) |-> Unranked(ranked[i])]
                      = LeadsOfScore(scored_leads, score)

(***************************************************************************)
(* C21: of N ranked records the record at position r (from 1) has rank r   *)
(* and percentile (N - r + 1) / N * 100, so the first has percentile 100;  *)
(* and for the records of 500 and of 200 scored on the one range criterion *)
(* {min 100, max 1000, weight 1.0} the 500 record comes first with         *)
(* total_score 0.44 and percentile 100, the 200 record second with         *)
(* total_score 0.11 and percentile 50.                                     *)
(***************************************************************************)
RankOf(lead) == lead.m[<<"rank">>]
PercentileOf(lead) == lead.m[<<"percentile">>]
TotalScoreOf(lead) == lead.m[<<"total_score">>]
CompanyOf(lead) == lead.m[<<"company">>]

\* The batch and the criteria of the example.
ExampleInput ==
    [enriched_leads |-> <<Lead("c", NumV(500)), Lead("a", NumV(200))>>,
     scoring_criteria |->
        MapV((<<"criteria">> :> ListV(<<RangeCriterion(<<"company_size">>, FloatV(One))>>)))]

ExampleRanked ==
    /\ Len(ranked_leads) = 2
    /\ CompanyOf(ranked_leads[1]) = StrV(<<"c">>)
    /\ TotalScoreOf(ranked_leads[1]) = FloatV(Q(44, 100))
    /\ PercentileOf(ranked_leads[1]) = FloatV(Q(100, 1))
    /\ CompanyOf(ranked_leads[2]) = StrV(<<"a">>)
    /\ TotalScoreOf(ranked_leads[2]) = FloatV(Q(11, 100))
    /\ PercentileOf(ranked_leads[2]) = FloatV(Q(50, 1))

C21_RankAndPercentile ==
    spc = "returned" =>
        /\ \A r \in 1..Len(ranked_leads) :
              /\ RankOf(ranked_leads[r]) = NumV(r)
              /\ PercentileOf(ranked_leads[r])
                    = FloatV(Q((Len(ranked_leads) - r + 1) * 100, Len(ranked_leads)))
        /\ ranked_leads # <<>> => PercentileOf(ranked_leads[1]) = FloatV(Q(100, 1))
        /\ scoring_input = ExampleInput => ExampleRanked

\* The example has been ranked.
C21_Witness ==
    /\ spc = "returned"
    /\ scoring_input = ExampleInput
    /\ ExampleRanked
    /\ RankOf(ranked_leads[2]) = NumV(2)

(***************************************************************************)
(* C22: the total_score of a record is the sum, over the criteria with     *)
(* weight > 0 and no others, of criterion score times weight, the weights  *)
(* taken as given (not normalised).  As stated: the total is that sum.     *)
(* As the code has it: the total is that sum rounded to two decimals, for  *)
(* a record whose scoring raises no exception.                             *)
(***************************************************************************)
\* The criteria of the list that count: a field is named, the weight is a
\* number above 0.
Counts(criterion) ==
    /\ IsMap(criterion)
    /\ Truthy(MapGet(criterion, <<"field">>, StrV(<<>>)))
    /\ IsNumber(MapGet(criterion, <<"weight">>, FloatV(Zero)))
    /\ Gt(NumberOf(MapGet(criterion, <<"weight">>, FloatV(Zero))), Zero)

RECURSIVE WeightedSum(_, _)
WeightedSum(lead, items) ==
    IF items = <<>> THEN Zero
    ELSE IF Counts(Head(items))
         THEN Add(Mul(EvaluateCriterion(lead, Head(items)),
                      NumberOf(Head(items).m[<<"weight">>])),
                  WeightedSum(lead, Tail(items)))
         ELSE WeightedSum(lead, Tail(items))

ScoredWithoutFailure(i) ==
    /\ i \in 1..Len(scored_leads)
    /\ ~RecordFails(scoring_input.enriched_leads[i])

ProbeCriterion == scoring_criteria.l[1]
ProbeField == ProbeCriterion.m[<<"field">>].s
\* The value the field of the criterion resolves to, NullV when it does not.
ProbeValue == GetFieldValue(scoring_input.enriched_leads[1], ProbeField)
\* The record has been scored.
ProbeScored ==
    /\ spc \in {"scoring", "returned"}
    /\ Len(scoring_input.enriched_leads) = 1
    /\ Len(scored_leads) = 1
    /\ Len(scoring_criteria.l) = 1
ProbeRawScore ==
    scored_leads[1].m[<<"score_breakdown">>].m[ProbeField].m[<<"raw_score">>]

IsRange(criterion) ==
    <<"min">> \in DOMAIN criterion.m /\ <<"max">> \in DOMAIN criterion.m
IsExpected(criterion) == ~IsRange(criterion) /\ <<"value">> \in DOMAIN criterion.m
IsGeneric(criterion) == ~IsRange(criterion) /\ <<"value">> \notin DOMAIN criterion.m

(***************************************************************************)
(* C23: a range criterion scores a numeric field value v as 1.0 or 0.0 by  *)
(* v = min when min = max, and otherwise 0.0 when v < min, 1.0 when        *)
(* v > max and (v - min) / (max - min) in between (min 100, max 1000: 550  *)
(* gives 0.5, 50 gives 0.0, 1500 gives 1.0); a value that cannot be turned *)
(* into a number scores 0.0.                                               *)
(***************************************************************************)
RangeScoreAsClaimed(v, min, max) ==
    IF min = max THEN (IF v = min THEN One ELSE Zero)
    ELSE IF Lt(v, min) THEN Zero
    ELSE IF Gt(v, max) THEN One
    ELSE Div(Sub(v, min), Sub(max, min))

ExampleRange ==
    /\ ProbeCriterion.m[<<"min">>] = NumV(100)
    /\ ProbeCriterion.m[<<"max">>] = NumV(1000)

C23_RangeScore ==
    (ProbeScored /\ IsRange(ProbeCriterion) /\ ProbeValue # NullV) =>
        /\ LET coerced == FloatOf(ProbeValue) IN
           IF coerced.raises THEN ProbeRawScore = FloatV(Zero)
           ELSE ~IsNaN(coerced.value) =>
                   ProbeRawScore = FloatV(RangeScoreAsClaimed(
                                             coerced.value,
                                             NumberOf(ProbeCriterion.m[<<"min">>]),
                                             NumberOf(ProbeCriterion.m[<<"max">>])))
        /\ (ExampleRange /\ ProbeValue = NumV(550)) => ProbeRawScore = FloatV(Q(1, 2))
        /\ (ExampleRange /\ ProbeValue = NumV(50)) => ProbeRawScore = FloatV(Zero)
        /\ (ExampleRange /\ ProbeValue = NumV(1500)) => ProbeRawScore = FloatV(One)

\* 550 has been scored on the range 100 to 1000 and got 0.5.
C23_Witness ==
    /\ ProbeScored
    /\ IsRange(ProbeCriterion)
    /\ ExampleRange
    /\ ProbeField = <<"v">>
    /\ ProbeValue = NumV(550)
    /\ ProbeRawScore = FloatV(Q(1, 2))

(***************************************************************************)
(* C24: an expected-value criterion scores 1.0 when the field of the       *)
(* record equals the expected value, two strings being compared without    *)
(* regard to case, and 0.0 in every other case, whatever the types of the  *)
(* field value and of the expected value.                                  *)
(***************************************************************************)
\* Equality as the claim has it: two strings by their lower-case text, any
\* other pair by the == of Python (numbers and bools by value).
EqualsAsClaimed(value, expected_value) ==
    IF IsStr(value) /\ IsStr(expected_value)
    THEN Lower(value.s) = Lower(expected_value.s)
    ELSE PyEq(value, expected_value)

C24_ExpectedValueScore ==
    (ProbeScored /\ IsExpected(ProbeCriterion) /\ ProbeValue # NullV) =>
        ProbeRawScore
            = FloatV(IF EqualsAsClaimed(ProbeValue, ProbeCriterion.m[<<"value">>])
                     THEN One ELSE Zero)

(***************************************************************************)
(* C25: a criterion with neither bounds nor an expected value scores 1.0   *)
(* when the field holds a value that is truthy (not empty, not zero), of   *)
(* whatever type (number, string, boolean, list, mapping), and 0.0         *)
(* otherwise.                                                              *)
(***************************************************************************)
C25_PresenceScore ==
    (ProbeScored /\ IsGeneric(ProbeCriterion)) =>
        ProbeRawScore = FloatV(IF Truthy(ProbeValue) THEN One ELSE Zero)

(***************************************************************************)
(* C26: whatever the kind of criterion, a dotted field that cannot be      *)
(* resolved in the record (a key is missing at some segment, or a value    *)
(* on the way is not a mapping) gives the criterion score 0.0 and no       *)
(* error: the call does not raise and the record carries no scoring_error. *)
(***************************************************************************)
\* The criterion the call was given, and the segments of its field.
GivenCriterion == scoring_input.scoring_criteria.m[<<"criteria">>].l[1]
GivenField == GivenCriterion.m[<<"field">>].s

\* Every segment of the path is a key of the mapping reached before it.
RECURSIVE Resolves(_, _)
Resolves(value, parts) ==
    \/ parts = <<>>
    \/ /\ IsMap(value)
       /\ Head(parts) \in DOMAIN value.m
       /\ Resolves(value.m[Head(parts)], Tail(parts))

Unresolved ==
    /\ Len(scoring_input.enriched_leads) = 1
    /\ HasDot(GivenField)
    /\ ~Resolves(scoring_input.enriched_leads[1], Split(GivenField))

C26_MissingPathScoresZero ==
    (spc # "idle" /\ Unresolved) =>
        /\ spc # "raised"
        /\ Len(scored_leads) = 1 =>
              /\ <<"scoring_error">> \notin DOMAIN scored_leads[1].m
              /\ scored_leads[1].m[<<"score_breakdown">>].m[GivenField].m[<<"raw_score">>]
                    = FloatV(Zero)

\* A record whose "v" is a number was scored on a presence criterion for
\* "v.size", and one on a range criterion for "profile.age".
C26_Witness ==
    /\ spc = "returned"
    /\ Unresolved
    /\ \/ /\ GivenField = <<"v", ".", "size">>
          /\ IsGeneric(GivenCriterion)
          /\ scoring_input.enriched_leads[1] = ProbeLead(NumV(550))
       \/ /\ GivenField = <<"profile", ".", "age">>
          /\ IsRange(GivenCriterion)
    /\ ProbeRawScore = FloatV(Zero)

(***************************************************************************)
(* C27: when the criteria list given to the scorer is empty, the fixed     *)
(* default criteria (company_size 0.3, company_revenue 0.25,               *)
(* recent_funding 0.2, hiring_sales 0.15, is_corporate_email 0.1) take its *)
(* place and every record is scored against them, instead of every record  *)
(* getting a zero score for lack of criteria.                              *)
(***************************************************************************)
NoCriteriaGiven ==
    \/ <<"criteria">> \notin DOMAIN scoring_input.scoring_criteria.m
    \/ scoring_input.scoring_criteria.m[<<"criteria">>] = ListV(<<>>)

DefaultFields ==
    << <<"company_size">>, <<"company_revenue">>, <<"recent_funding">>,
       <<"hiring_sales">>, <<"is_corporate_email">> >>
DefaultWeights == << Q(30, 100), Q(25, 100), Q(20, 100), Q(15, 100), Q(10, 100) >>

C27_DefaultCriteriaSubstituted ==
    (spc \in {"scoring", "returned"} /\ NoCriteriaGiven) =>
        /\ IsList(scoring_criteria)
        /\ Len(scoring_criteria.l) = Len(DefaultFields)
        /\ \A k \in 1..Len(scoring_criteria.l) :
              /\ scoring_criteria.l[k].m[<<"field">>] = StrV(DefaultFields[k])
              /\ NumberOf(scoring_criteria.l[k].m[<<"weight">>]) = DefaultWeights[k]
        /\ \A i \in 1..Len(scored_leads) :
              /\ <<"scoring_error">> \notin DOMAIN scored_leads[i].m
              /\ DOMAIN scored_leads[i].m[<<"score_breakdown">>].m
                    = {DefaultFields[k] : k \in 1..Len(DefaultFields)}

\* A batch given with an empty criteria list was ranked, and its record of
\* 900 employees has the score 0.27 that the default criteria give it.
C27_Witness ==
    /\ spc = "returned"
    /\ <<"criteria">> \in DOMAIN scoring_input.scoring_criteria.m
    /\ NoCriteriaGiven
    /\ \E i \in 1..Len(ranked_leads) :
          /\ CompanyOf(ranked_leads[i]) = StrV(<<"d">>)
          /\ TotalScoreOf(ranked_leads[i]) = FloatV(Q(27, 100))

(***************************************************************************)
(* C28: every criterion evaluation gives a score between 0.0 and 1.0,      *)
(* whatever the field value and the criterion (a range with min > max      *)
(* included), and so the total_score of a record lies between 0 and the    *)
(* sum of the weights above 0.                                             *)
(***************************************************************************)
\* min <= x <= max; false when x is NaN.
Within(x, min, max) == Le(min, x) /\ Le(x, max)

C28_ScoresWithinBounds ==
    ProbeScored =>
        /\ Within(NumberOf(ProbeRawScore), Zero, One)
        /\ Within(NumberOf(TotalScoreOf(scored_leads[1])), Zero,
                  WeightSum(scoring_criteria.l))

(***************************************************************************)
(* C29: scoring neither loses nor duplicates records.  For N input records *)
(* the call returns N ranked records, one for each input record with the   *)
(* fields of that record kept and the scoring fields added, the ranks are  *)
(* 1 to N, scoring_metadata.total_leads is N, and the input records are    *)
(* not modified.                                                           *)
(***************************************************************************)
ScoringFields ==
    {<<"total_score">>, <<"score_breakdown">>, <<"scoring_error">>,
     <<"rank">>, <<"percentile">>}

\* ranked is lead with scoring fields added and nothing else changed.
Extends(ranked, lead) ==
    /\ IsMap(ranked)
    /\ IsMap(lead)
    /\ DOMAIN lead.m \subseteq DOMAIN ranked.m
    /\ DOMAIN ranked.m \ DOMAIN lead.m \subseteq ScoringFields
    /\ \A key \in DOMAIN lead.m \ ScoringFields : ranked.m[key] = lead.m[key]

OnePerInputRecord ==
    LET n == Len(scoring_input.enriched_leads) IN
    /\ Len(ranked_leads) = n
    /\ \E p \in Permutations(1..n) :
          \A i \in 1..n : Extends(ranked_leads[i], scoring_input.enriched_leads[p[i]])
    /\ \A r \in 1..n : RankOf(ranked_leads[r]) = NumV(r)
    /\ ScoringMetadata.total_leads = n

C29_RecordsPreserved ==
    /\ [](spc \in {"returned", "raised"} => (spc = "returned" /\ OnePerInputRecord))
    /\ [][scoring_input' = scoring_input]_vars

(***************************************************************************)
(* C30: execute_workflow(initial_inputs) starts from a freshly created     *)
(* state in which only the fields whose key occurs in initial_inputs are   *)
(* replaced; any other key of initial_inputs is ignored and reaches no     *)
(* step, and the fields not named keep their fresh values (empty log, no   *)
(* errors, no results).                                                    *)
(***************************************************************************)
FreshFields == {"workflow_id", "current_step", "execution_log", "errors", "results"}

FreshValue(field) ==
    IF field = "workflow_id" THEN now
    ELSE IF field = "current_step" THEN "None"
    ELSE <<>>

StartsAsClaimed(initial_inputs) ==
    /\ DOMAIN state' = FreshFields
    /\ \A field \in FreshFields :
          state'[field] = IF field \in DOMAIN initial_inputs
                          THEN initial_inputs[field] ELSE FreshValue(field)

\* The value the explored initial_inputs carry under a key the state does
\* not have.
IgnoredValues ==
    {initial_inputs[key] :
        key \in UNION {DOMAIN ii \ FreshFields : ii \in InitialInputChoices},
        initial_inputs \in {ii \in InitialInputChoices : DOMAIN ii \ FreshFields # {}}}

IgnoredKeysReachNoStep ==
    /\ DOMAIN state = FreshFields
    /\ \A k \in 1..Len(calls) :
          \A key \in DOMAIN calls[k].input_data :
              calls[k].input_data[key] \notin IgnoredValues

C30_InitialInputsMerged ==
    /\ [][\A initial_inputs \in InitialInputChoices :
             (ExecuteWorkflow(initial_inputs) /\ run_ids' # run_ids)
                 => StartsAsClaimed(initial_inputs)]_vars
    /\ []IgnoredKeysReachNoStep

\* A run has returned that was given results for step B and nothing else:
\* it started with those results, an empty log and no errors.
C30_Witness ==
    /\ pc = "returned"
    /\ trace # <<>>
    /\ initial_state.results = <<[k |-> "B", v |-> PresetPayload]>>
    /\ initial_state.execution_log = <<>>
    /\ initial_state.errors = <<>>
    /\ initial_state.current_step = "None"

=============================================================================
